---- MODULE Spec2Model ----
(***************************************************************************)
(* TracerService.trace (src/src/tracer/services/tracer_service.py) run     *)
(* against StaticChainAdapter and the static price port of the unit tests. *)
(* Spec: TraceConfig(kwargs), then trace(cfg) twice on the same service.  *)
(* FaultSpec: one trace(cfg) with a configuration object that carries the  *)
(* two attributes trace() reads with getattr, against ports and a progress *)
(* sink that may raise.                                                    *)
(* AmountSpec, FairSpec, RetrySpec, LiveSpec: amount conversion, the loop  *)
(* under fairness, the adapters' retry loops and the Etherscan iterators.  *)
(* PriceSpec: PriceAdapter.get_token_usd_price.  PacerSpec:                *)
(* SimpleRateLimiter in the two adapters' request loops.                   *)
(***************************************************************************)
EXTENDS Integers, Sequences, FiniteSets, TLC

\* ---------------------------------------------------------------- bounds
MaxHops == 2
MaxCap == 2
MaxTransfers == 3

\* ------------------------------------------------------- Optional values
None == <<>>
Some(x) == <<x>>
IsNone(o) == o = <<>>
Val(o) == o[1]

\* ------------------------------------------------------------- decimals
\* A number m * 10^e (decimal.Decimal, and the integers of the raw rows).
Dec(m, e) == [m |-> m, e |-> e]

RECURSIVE Pow10(_)
Pow10(n) == IF n <= 0 THEN 1 ELSE 10 * Pow10(n - 1)

MinOf(x, y) == IF x <= y THEN x ELSE y

\* a < b, a <= b, a >= b on decimals, by aligning the exponents
DecLT(a, b) ==
    LET e == MinOf(a.e, b.e)
    IN  a.m * Pow10(a.e - e) < b.m * Pow10(b.e - e)
DecLE(a, b) == ~DecLT(b, a)
DecGE(a, b) == ~DecLT(a, b)

DecMul(a, b) == Dec(a.m * b.m, a.e + b.e)
\* a / 10^n
DecDivPow10(a, n) == Dec(a.m, a.e - n)

\* WEI_PER_ETH = Decimal("1000000000000000000") = 10^WeiExp
WeiExp == 18

\* ------------------------------------------------------------ addresses
A == "0xaaaa"
B == "0xbbbb"
C == "0xcccc"
D == "0xdddd"
TokenT == "0xtoken"
TokenU == "0xunk"

\* str.lower()
Lower(s) ==
    CASE s = "0xAAAA" -> "0xaaaa"
      [] s = "0xBBBB" -> "0xbbbb"
      [] s = "0xCCCC" -> "0xcccc"
      [] s = "0xTOKEN" -> "0xtoken"
      [] s = "0x2260FAC5" -> "0x2260fac5"
      [] s = "0xbb519BDa" -> "0xbb519bda"
      [] OTHER -> s

\* if stats["checked"] % 25 == 0: a contract_progress event
ContractProgressEvery == 25

\* "0xe01", "0xe02", ...: enough counterparties for one contract_progress
Digits == << "0", "1", "2", "3", "4", "5", "6", "7", "8", "9" >>
FanAddr(k) == "0xe" \o Digits[(k \div 10) + 1] \o Digits[(k % 10) + 1]
FanSize == ContractProgressEvery - 1
FanAddrs == { FanAddr(k) : k \in 1..FanSize }

\* the order sorted() gives the lowercase addresses
AddrRank(a) ==
    CASE a = A -> 1
      [] a = B -> 2
      [] a = C -> 3
      [] a = D -> 4
      [] a \in FanAddrs -> 4 + (CHOOSE k \in 1..FanSize : FanAddr(k) = a)
      [] OTHER -> 5 + FanSize

\* ------------------------------------------------------- the chain data
NowTs == 1000
DaySeconds == 24 * 3600

\* StaticChainAdapter(ts_to_block=...)
ts_to_block == (NowTs :> 10) @@ ((NowTs - DaySeconds) :> 9)

EthPool ==
    << [tx_hash |-> "0xt1", block_number |-> 10, timestamp |-> 900,
        from_address |-> A, to_address |-> B, value_wei |-> Dec(1, 18)],
       [tx_hash |-> "0xt1", block_number |-> 10, timestamp |-> 900,
        from_address |-> A, to_address |-> B, value_wei |-> Dec(5, 17)],
       [tx_hash |-> "0xt4", block_number |-> 10, timestamp |-> 902,
        from_address |-> C, to_address |-> D, value_wei |-> Dec(5, 17)],
       [tx_hash |-> "0xt5", block_number |-> 10, timestamp |-> 903,
        from_address |-> A, to_address |-> C, value_wei |-> Dec(0, 0)],
       [tx_hash |-> "0xt6", block_number |-> 11, timestamp |-> 990,
        from_address |-> A, to_address |-> D, value_wei |-> Dec(1, 18)],
       [tx_hash |-> "0xt7", block_number |-> 9, timestamp |-> 800,
        from_address |-> "0xCCCC", to_address |-> A, value_wei |-> Dec(1, 18)] >>

Erc20Pool ==
    << [tx_hash |-> "0xt2", block_number |-> 10, timestamp |-> 901,
        from_address |-> B, to_address |-> C, token_address |-> "0xTOKEN",
        value_raw |-> Dec(100, 0), token_symbol |-> Some("TKN"),
        token_decimals |-> Some(2)],
       [tx_hash |-> "0xt3", block_number |-> 9, timestamp |-> 800,
        from_address |-> "0xBBBB", to_address |-> A, token_address |-> TokenU,
        value_raw |-> Dec(5, 0), token_symbol |-> None,
        token_decimals |-> None],
       [tx_hash |-> "0xt1", block_number |-> 10, timestamp |-> 900,
        from_address |-> A, to_address |-> B, token_address |-> TokenT,
        value_raw |-> Dec(200000, 0), token_symbol |-> Some("TKN"),
        token_decimals |-> Some(2)] >>

\* the rows of pool whose index is in S, in pool order
Pick(pool, S) ==
    LET F[k \in 0..Len(pool)] ==
            IF k = 0 THEN <<>>
            ELSE IF k \in S THEN Append(F[k - 1], pool[k]) ELSE F[k - 1]
    IN  F[Len(pool)]

\* ------------------------------------------------------------ variables
VARIABLES
    kwargs,             \* the keyword arguments given to TraceConfig
    eth_transfers,      \* StaticChainAdapter._eth
    erc20_transfers,    \* StaticChainAdapter._erc20
    pc,                 \* position in TraceConfig(...) / trace()
    cfg,                \* the TraceConfig instance
    start_block, end_block,
    graph,              \* [nodes: dict in insertion order, edges: list]
    q,                  \* deque of _hopItem
    seen_addr_depth,
    total_edges_added,
    processed,
    contract_stats,
    seen_edge_keys,
    addr, depth,        \* the item being processed
    new_edges,          \* the batch of the item being processed
    i,                  \* position of the "for e in new_edges" loop
    port_calls,         \* history: the transfer-iteration calls made
    stages,             \* history: the batch after each pipeline stage
    visit_base,         \* history: len(graph.edges) when the visit began
    visits,             \* history: one record per completed visit
    contract,           \* what chain.is_contract does for each address
    on_progress,        \* the sink given to trace(): "none", "ok", "raises"
    events,             \* history: the calls the sink received
    raised,             \* the exception that left trace(), if any
    result,             \* the Graph trace() returned, if any
    block_calls,        \* history: the get_block_number_by_time calls
    probe_calls,        \* history: the addresses given to chain.is_contract
    invocation,         \* 1 for the first trace() on the service, then 2
    first_result,       \* what the first trace() returned
    transfer,           \* a raw row whose integer has any number of digits
    edge_amount,        \* the amount of the edge built from it, if built
    live_pc,            \* the live adapters: "idle", or inside an iteration
    op,                 \* the adapter method running, and what it asks for
    last_call,          \* the latest _call: the provider's answers, the result
    pages_got,          \* history: the pages the running iteration received
    ret,                \* what the latest adapter method gave its caller
    _is_contract_cache, \* EtherscanChainAdapter._is_contract_cache
    _token_meta_cache,  \* EtherscanChainAdapter._token_meta_cache
    ops_done,           \* how many adapter methods have run
    FIXED_TOKEN_USD,    \* settings.FIXED_TOKEN_USD as configured
    STABLECOIN_ADDRESSES, \* settings.STABLECOIN_ADDRESSES as configured
    _price_cache,       \* PriceAdapter._price_cache
    price_pc,           \* PriceAdapter: "idle", or "lookup" inside get_pairs
    price_call,         \* the latest get_token_usd_price and what it gave
    requests_per_sec,   \* what SimpleRateLimiter is built with
    clock,              \* time.time(), in half seconds
    _min_interval,      \* SimpleRateLimiter._min_interval, in half seconds
    _last_ts,           \* SimpleRateLimiter._last_ts
    pacer_pc,           \* where the adapter that owns the pacer stands
    pacing              \* the running _call: its attempts, waits, requests

vars == << kwargs, eth_transfers, erc20_transfers, pc, cfg, start_block,
           end_block, graph, q, seen_addr_depth, total_edges_added,
           processed, contract_stats, seen_edge_keys, addr, depth,
           new_edges, i, port_calls, stages, visit_base, visits,
           contract, on_progress, events, raised, result, block_calls,
           probe_calls, invocation, first_result, transfer, edge_amount,
           live_pc, op, last_call, pages_got, ret, _is_contract_cache,
           _token_meta_cache, ops_done, FIXED_TOKEN_USD,
           STABLECOIN_ADDRESSES, _price_cache, price_pc, price_call,
           requests_per_sec, clock, _min_interval, _last_ts, pacer_pc,
           pacing >>

\* ------------------------------------------------------ TraceConfig
TraceConfigFields ==
    {"address", "days", "hops", "min_usd", "now_ts",
     "max_edges_per_address", "max_total_edges"}

TraceConfigDefaults ==
    [days |-> 30, hops |-> 2, min_usd |-> Dec(0, 0), now_ts |-> None,
     max_edges_per_address |-> 0, max_total_edges |-> 0]

\* getattr(obj, name, default)
GetAttr(obj, name, default) ==
    IF name \in DOMAIN obj THEN obj[name] ELSE default

\* ------------------------------------------------- StaticChainAdapter
get_block_number_by_time(unix_ts) ==
    IF unix_ts \in DOMAIN ts_to_block THEN ts_to_block[unix_ts] ELSE 0

\* list.sort(key=lambda x: (x.block_number, x.timestamp)): stable, ascending
BlockTsLE(x, y) ==
    \/ x.block_number < y.block_number
    \/ x.block_number = y.block_number /\ x.timestamp <= y.timestamp

RECURSIVE InsertAsc(_, _)
InsertAsc(s, x) ==
    IF s = <<>> THEN <<x>>
    ELSE IF BlockTsLE(Head(s), x) THEN <<Head(s)>> \o InsertAsc(Tail(s), x)
    ELSE <<x>> \o s

RECURSIVE SortByBlockTs(_)
SortByBlockTs(s) ==
    IF s = <<>> THEN <<>>
    ELSE InsertAsc(SortByBlockTs(SubSeq(s, 1, Len(s) - 1)), s[Len(s)])

\* variant with a seeded fault: the port returns the rows of every address
InRangeAnyAddress(t, ad, sb, eb) ==
    /\ t.block_number >= sb
    /\ t.block_number <= eb

InRange(t, ad, sb, eb) ==
    /\ t.block_number >= sb
    /\ t.block_number <= eb
    /\ (Lower(t.from_address) = ad \/ Lower(t.to_address) = ad)

iter_normal_txs(address, sb, eb) ==
    LET ad == Lower(address)
        Keep(t) == InRange(t, ad, sb, eb)
    IN  SortByBlockTs(SelectSeq(eth_transfers, Keep))

iter_erc20_transfers(address, sb, eb) ==
    LET ad == Lower(address)
        Keep(t) == InRange(t, ad, sb, eb)
    IN  SortByBlockTs(SelectSeq(erc20_transfers, Keep))

\* "contract" / "eoa": bool(self._contract.get(address.lower(), False));
\* "raises": a chain port whose probe fails (the try of line 289 is for it)
is_contract(address) ==
    IF Lower(address) \in DOMAIN contract THEN contract[Lower(address)]
    ELSE "eoa"

\* ---------------------------------------------------------- price port
\* _StaticPrice(token_prices={token: Decimal("1")}, eth_price=Decimal("2000"))
get_eth_usd_price(timestamp) == Dec(2000, 0)

get_token_usd_price(token_address, timestamp) ==
    IF Lower(token_address) = TokenT THEN Some(Dec(1, 0)) ELSE None

\* ------------------------------------------------------- edge builders
\* variant with a seeded fault: the sender is stored as the row spells it
EthEdgeRaw(tx) ==
    LET amount_eth == DecDivPow10(tx.value_wei, WeiExp)
    IN  [from_address |-> tx.from_address,
         to_address |-> Lower(tx.to_address),
         tx_hash |-> tx.tx_hash,
         timestamp |-> tx.timestamp,
         asset_type |-> "ETH",
         token_address |-> None,
         symbol |-> Some("ETH"),
         amount |-> amount_eth,
         usd_value |-> Some(DecMul(amount_eth, get_eth_usd_price(tx.timestamp)))]

EthEdge(tx) ==
    LET amount_eth == DecDivPow10(tx.value_wei, WeiExp)
    IN  [from_address |-> Lower(tx.from_address),
         to_address |-> Lower(tx.to_address),
         tx_hash |-> tx.tx_hash,
         timestamp |-> tx.timestamp,
         asset_type |-> "ETH",
         token_address |-> None,
         symbol |-> Some("ETH"),
         amount |-> amount_eth,
         usd_value |-> Some(DecMul(amount_eth, get_eth_usd_price(tx.timestamp)))]

\* a variant with a seeded fault: rows of value 0 get an edge too
EthValueAny(tx) == tx.value_wei.m >= 0

\* value_wei <= 0: continue
EthValuePositive(tx) == tx.value_wei.m > 0

RECURSIVE EthEdgesOf(_)
EthEdgesOf(txs) ==
    IF txs = <<>> THEN <<>>
    ELSE IF EthValuePositive(Head(txs))
         THEN <<EthEdge(Head(txs))>> \o EthEdgesOf(Tail(txs))
         ELSE EthEdgesOf(Tail(txs))

_eth_edges_for(address, sb, eb) == EthEdgesOf(iter_normal_txs(address, sb, eb))

Erc20Edge(tx) ==
    LET amount == IF IsNone(tx.token_decimals) THEN tx.value_raw
                  ELSE DecDivPow10(tx.value_raw, Val(tx.token_decimals))
        token_price == get_token_usd_price(tx.token_address, tx.timestamp)
    IN  [from_address |-> Lower(tx.from_address),
         to_address |-> Lower(tx.to_address),
         tx_hash |-> tx.tx_hash,
         timestamp |-> tx.timestamp,
         asset_type |-> "ERC20",
         token_address |-> Some(Lower(tx.token_address)),
         symbol |-> tx.token_symbol,
         amount |-> amount,
         usd_value |-> IF IsNone(token_price) THEN None
                       ELSE Some(DecMul(amount, Val(token_price)))]

\* if ignore_unknown_price and token_price is None: continue
Erc20Dropped(tx, ignore_unknown_price) ==
    ignore_unknown_price /\ IsNone(get_token_usd_price(tx.token_address, tx.timestamp))

RECURSIVE Erc20EdgesOf(_, _)
Erc20EdgesOf(txs, ignore_unknown_price) ==
    IF txs = <<>> THEN <<>>
    ELSE IF Erc20Dropped(Head(txs), ignore_unknown_price)
         THEN Erc20EdgesOf(Tail(txs), ignore_unknown_price)
         ELSE <<Erc20Edge(Head(txs))>> \o Erc20EdgesOf(Tail(txs), ignore_unknown_price)

_erc20_edges_for(address, sb, eb, ignore_unknown_price) ==
    Erc20EdgesOf(iter_erc20_transfers(address, sb, eb), ignore_unknown_price)

\* -------------------------------------------------------------- helpers
EdgeKey(e) ==
    << e.tx_hash, e.from_address, e.to_address, e.asset_type, e.token_address >>

NodeAddrs(g) == { g.nodes[k].address : k \in 1..Len(g.nodes) }

\* ------------------------------------------------- progress and errors
\* the call on_progress(event, data), as the sink receives it
SinkCall(event, data) == [event |-> event, data |-> data]

\* variant with a seeded fault: the sink's calls are recorded newest first
_emit_first(log, sink, event, data) ==
    IF sink = "none" THEN log ELSE << SinkCall(event, data) >> \o log

\* _emit: without a sink there is no call; an exception of the sink ends at
\* "except Exception: return", so the caller sees the same thing either way
_emit(log, sink, event, data) ==
    IF sink = "none" THEN log ELSE Append(log, SinkCall(event, data))

Exc(type, site) == Some([type |-> type, site |-> site])

\* variant with a seeded fault: trace() converts what it lets out
WrappedAsTracerError(exc) == Exc("TracerError", Val(exc).site)

\* trace() has no try statement of its own: what is raised below it leaves
\* it as the same exception object
Propagated(exc) == exc

\* what a call of _ensure_node leaves behind
EnsureOutcome(g, stats, probed, emitted, exc) ==
    [graph |-> g, stats |-> stats, probed |-> probed, emitted |-> emitted,
     raised |-> exc]

WithNode(g, a, isc) ==
    [g EXCEPT !.nodes = Append(@, [address |-> a, is_contract |-> isc])]

\* variant with a seeded fault: the untagged path returns before the node is stored
ensure_node_tagged_only(g, address, sink, stats, skip_contract_check) ==
    LET a == Lower(address)
    IN  IF a \in NodeAddrs(g) \/ skip_contract_check
        THEN EnsureOutcome(g, stats, <<>>, <<>>, None)
        ELSE EnsureOutcome(WithNode(g, a, is_contract(a) = "contract"),
                           [stats EXCEPT !.checked = @ + 1], <<a>>, <<>>, None)

\* variant with a seeded fault: no "if addr in graph.nodes: return", so a
\* node already stored is tagged again (a dict keeps the key's position)
ensure_node_overwrites(probe, g, address, sink, stats, skip_contract_check) ==
    LET a == Lower(address)
        isc == ~skip_contract_check /\ probe = "contract"
        st == IF skip_contract_check THEN stats
              ELSE [stats EXCEPT !.checked = @ + 1]
    IN  IF a \in NodeAddrs(g)
        THEN EnsureOutcome(
                 [g EXCEPT !.nodes =
                     [k \in 1..Len(g.nodes) |->
                         IF g.nodes[k].address = a
                         THEN [address |-> a, is_contract |-> isc]
                         ELSE g.nodes[k]]],
                 st, <<>>, <<>>, None)
        ELSE EnsureOutcome(WithNode(g, a, isc), st, <<>>, <<>>, None)

\* variant with a seeded fault: no try around the probe
ensure_node_probe_uncaught(probe, g, address, sink, stats, skip_contract_check) ==
    LET a == Lower(address)
    IN  IF a \in NodeAddrs(g) THEN EnsureOutcome(g, stats, <<>>, <<>>, None)
        ELSE IF skip_contract_check
        THEN EnsureOutcome(WithNode(g, a, FALSE), stats, <<>>, <<>>, None)
        ELSE IF probe = "raises"
        THEN EnsureOutcome(g, stats, <<a>>, <<>>,
                           Exc("DataSourceError", "is_contract"))
        ELSE EnsureOutcome(WithNode(g, a, probe = "contract"),
                           [stats EXCEPT !.checked = @ + 1], <<a>>, <<>>, None)

\* the body of _ensure_node, given what self.chain.is_contract(addr) does if
\* it is called ("contract", "eoa", "raises"): the graph and the counters
\* after the call, the probes made, the events given to the sink, and the
\* exception the call ends with, if any
EnsureNode(probe, g, address, sink, stats, skip_contract_check) ==
    LET a == Lower(address)
    IN  IF a \in NodeAddrs(g) THEN EnsureOutcome(g, stats, <<>>, <<>>, None)
        ELSE IF skip_contract_check
        THEN EnsureOutcome(WithNode(g, a, FALSE), stats, <<>>, <<>>, None)
        ELSE
          LET isc == probe = "contract"
              st1 == IF probe = "raises"
                     THEN [stats EXCEPT !.errors = @ + 1] ELSE stats
              st2 == [st1 EXCEPT !.checked = @ + 1]
              due == sink # "none" /\ st2.checked % ContractProgressEvery = 0
              ev == SinkCall("contract_progress",
                             [checked |-> st2.checked, errors |-> st2.errors])
          IN  IF due /\ sink = "raises"
              THEN EnsureOutcome(g, st2, <<a>>, <<ev>>,
                                 Exc("SinkError", "contract_progress"))
              ELSE EnsureOutcome(WithNode(g, a, isc), st2, <<a>>,
                                 IF due THEN <<ev>> ELSE <<>>, None)

\* _ensure_node(graph, address, on_progress, stats, skip_contract_check)
_ensure_node(g, address, sink, stats, skip_contract_check) ==
    EnsureNode(is_contract(address), g, address, sink, stats,
               skip_contract_check)

\* variant with a seeded fault: ">" where the code has ">="
MinUsdKeepsStrict(e, min_usd) ==
    IsNone(e.usd_value) \/ DecLT(min_usd, Val(e.usd_value))

MinUsdKeeps(e, min_usd) ==
    IsNone(e.usd_value) \/ DecGE(Val(e.usd_value), min_usd)

_apply_min_usd(es, min_usd) ==
    IF DecLE(min_usd, Dec(0, 0)) THEN es
    ELSE LET Keep(e) == MinUsdKeeps(e, min_usd) IN SelectSeq(es, Keep)

RECURSIVE DedupeFrom(_, _)
DedupeFrom(es, seen) ==
    IF es = <<>> THEN <<>>
    ELSE IF EdgeKey(Head(es)) \in seen THEN DedupeFrom(Tail(es), seen)
    ELSE <<Head(es)>> \o DedupeFrom(Tail(es), seen \cup {EdgeKey(Head(es))})

_dedupe_edges(es) == DedupeFrom(es, {})

_edge_sort_key(e) ==
    IF IsNone(e.usd_value) THEN Dec(-1, 0) ELSE Val(e.usd_value)

\* variant with a seeded fault: an edge goes before the edges of equal key
RECURSIVE InsertDescBeforeEquals(_, _)
InsertDescBeforeEquals(s, x) ==
    IF s = <<>> THEN <<x>>
    ELSE IF DecLT(_edge_sort_key(x), _edge_sort_key(Head(s)))
         THEN <<Head(s)>> \o InsertDescBeforeEquals(Tail(s), x)
         ELSE <<x>> \o s

\* list.sort(key=_edge_sort_key, reverse=True): stable, descending
RECURSIVE InsertDesc(_, _)
InsertDesc(s, x) ==
    IF s = <<>> THEN <<x>>
    ELSE IF DecGE(_edge_sort_key(Head(s)), _edge_sort_key(x))
         THEN <<Head(s)>> \o InsertDesc(Tail(s), x)
         ELSE <<x>> \o s

RECURSIVE SortByUsdDesc(_)
SortByUsdDesc(s) ==
    IF s = <<>> THEN <<>>
    ELSE InsertDesc(SortByUsdDesc(SubSeq(s, 1, Len(s) - 1)), s[Len(s)])

\* s[:n]
Take(s, n) == SubSeq(s, 1, MinOf(n, Len(s)))

\* variant with a seeded fault: the slice is one too long
PerAddressCapOffByOne(es, per_addr_limit) ==
    IF per_addr_limit > 0 THEN Take(es, per_addr_limit + 1) ELSE es

PerAddressCap(es, per_addr_limit) ==
    IF per_addr_limit > 0 THEN Take(es, per_addr_limit) ELSE es

\* variant with a seeded fault: the edges already added are not subtracted
RemainingIgnoresAdded(max_total, total) == max_total

\* remaining = max_total - total_edges_added
Remaining(max_total, total) == max_total - total

BudgetExhausted(max_total, total) ==
    max_total > 0 /\ Remaining(max_total, total) <= 0

\* variant with a seeded fault: the recorded edges are dropped before the slice
TotalCapAfterDedupe(es, max_total, total) ==
    LET Unrecorded(e) == EdgeKey(e) \notin seen_edge_keys
    IN  IF max_total > 0
        THEN Take(SelectSeq(es, Unrecorded), Remaining(max_total, total))
        ELSE es

TotalCap(es, max_total, total) ==
    IF max_total > 0 THEN Take(es, Remaining(max_total, total)) ELSE es

\* variant with a seeded fault: the global dedupe never matches
KeySeenNever(edge_key, seen) == FALSE

KeySeen(edge_key, seen) == edge_key \in seen

\* sorted(set of the edges' endpoints, minus focus)
RECURSIVE SortedAddrs(_)
SortedAddrs(S) ==
    IF S = {} THEN <<>>
    ELSE LET m == CHOOSE x \in S : \A y \in S : AddrRank(x) <= AddrRank(y)
         IN  <<m>> \o SortedAddrs(S \ {m})

Endpoints(es) ==
    { es[k].from_address : k \in 1..Len(es) } \cup
    { es[k].to_address : k \in 1..Len(es) }

\* variant with a seeded fault: only the receiving side of an edge is followed
neighbor_addresses_to_only(focus, es) ==
    SortedAddrs({ es[k].to_address : k \in 1..Len(es) } \ {Lower(focus)})

_neighbor_addresses(focus, es) == SortedAddrs(Endpoints(es) \ {Lower(focus)})

\* variant with a seeded fault: "<=" where the code has "<"
ShouldEnqueueInclusive(d, hops) == d <= hops

ShouldEnqueue(d, hops) == d < hops

HopItems(ns, d) == [k \in 1..Len(ns) |-> [address |-> ns[k], depth |-> d]]

\* ------------------------------------------------------------------ Init
\* the seed as the caller spells it; the rows of the chain spell it A
Seed == "0xAAAA"

KwargsBase ==
    [address : {Seed}, days : {1}, hops : (0..MaxHops) \cup {-1},
     min_usd : {Dec(0, 0), Dec(1000, 0)}, now_ts : {Some(NowTs)},
     max_edges_per_address : 0..MaxCap, max_total_edges : 0..MaxCap]

KwargsWithIgnore ==
    [address : {A}, days : {1}, hops : (0..MaxHops) \cup {-1},
     min_usd : {Dec(0, 0), Dec(1000, 0)}, now_ts : {Some(NowTs)},
     max_edges_per_address : 0..MaxCap, max_total_edges : 0..MaxCap,
     ignore_unknown_price : {TRUE}]

NoCfg == [address |-> "", days |-> 0, hops |-> 0, min_usd |-> Dec(0, 0),
          now_ts |-> None, max_edges_per_address |-> 0, max_total_edges |-> 0]

EmptyGraph == [nodes |-> <<>>, edges |-> <<>>]

\* no adapter method running, none called, none returned
NoOp == [name |-> "", address |-> "", page |-> 0, full_pages |-> 0,
         last_page |-> << >>]
NoCall == [adapter |-> "", script |-> << >>, result |-> None]
NoRet == [op |-> "", address |-> "", value |-> None, raised |-> None,
          requests |-> 0]

NoStages == [fetched |-> <<>>, filtered |-> <<>>, deduped |-> <<>>]

\* StaticChainAdapter(contracts={B: True})
StaticContracts == [a \in {B} |-> "contract"]

\* the locals of trace() and the histories before the first call
Idle ==
    /\ start_block = 0
    /\ end_block = 0
    /\ graph = EmptyGraph
    /\ q = <<>>
    /\ seen_addr_depth = {}
    /\ total_edges_added = 0
    /\ processed = 0
    /\ contract_stats = [checked |-> 0, errors |-> 0]
    /\ seen_edge_keys = {}
    /\ addr = ""
    /\ depth = 0
    /\ new_edges = <<>>
    /\ i = 0
    /\ port_calls = <<>>
    /\ stages = NoStages
    /\ visit_base = 0
    /\ visits = <<>>
    /\ events = <<>>
    /\ raised = None
    /\ result = None
    /\ block_calls = <<>>
    /\ probe_calls = <<>>
    /\ invocation = 1
    /\ first_result = None

\* no row is being converted outside a trace
UnitsIdle ==
    /\ transfer = [asset |-> "ETH", value |-> << 0 >>, decimals |-> None]
    /\ edge_amount = None

\* EtherscanChainAdapter.__init__: empty caches, nothing asked yet
LiveIdle ==
    /\ live_pc = "idle"
    /\ op = NoOp
    /\ last_call = NoCall
    /\ pages_got = << >>
    /\ ret = NoRet
    /\ _is_contract_cache = << >>
    /\ _token_meta_cache = << >>
    /\ ops_done = 0

\* settings.py lines 31-42 in short: a lowercase key and a key in mixed
\* case in the fixed prices, lowercase stablecoin addresses
Wbtc == "0x2260fac5"
MixedKey == "0xbb519BDa"
SourceFixed == (Wbtc :> Dec(93000, 0)) @@ (MixedKey :> Dec(2, 0))
SourceStable == { "0xusdc" }

NoPriceCall == [token_address |-> "", step |-> "", value |-> None,
                raised |-> None, returned |-> FALSE, lookup |-> None,
                cache_before |-> << >>, again |-> FALSE]

\* PriceAdapter.__init__: an empty cache, nothing asked yet
PricingIdle ==
    /\ FIXED_TOKEN_USD = SourceFixed
    /\ STABLECOIN_ADDRESSES = SourceStable
    /\ _price_cache = << >>
    /\ price_pc = "idle"
    /\ price_call = NoPriceCall

NoPacing == [adapter |-> "", attempt |-> 0, waits |-> 0, requests |-> 0,
             returns |-> << >>, calls |-> 0, raised |-> None]

\* no pacer built
PacingIdle ==
    /\ requests_per_sec = 1
    /\ clock = 0
    /\ _min_interval = 0
    /\ _last_ts = 0
    /\ pacer_pc = "off"
    /\ pacing = NoPacing

Init ==
    /\ kwargs \in KwargsBase \cup KwargsWithIgnore
    /\ \E S1 \in SUBSET (1..Len(EthPool)), S2 \in SUBSET (1..Len(Erc20Pool)) :
          /\ Cardinality(S1) + Cardinality(S2) <= MaxTransfers
          /\ eth_transfers = Pick(EthPool, S1)
          /\ erc20_transfers = Pick(Erc20Pool, S2)
    /\ contract = StaticContracts
    /\ on_progress = "ok"
    /\ pc = "new"
    /\ cfg = NoCfg
    /\ Idle
    /\ UnitsIdle
    /\ PricingIdle
    /\ PacingIdle
    /\ LiveIdle

\* --------------------------------------------------------------- actions
Inputs == << kwargs, eth_transfers, erc20_transfers, contract, on_progress >>
Calls == << invocation, first_result >>
Units == << transfer, edge_amount >>
Live == << live_pc, op, last_call, pages_got, ret, _is_contract_cache,
          _token_meta_cache, ops_done >>
Pricing == << FIXED_TOKEN_USD, STABLECOIN_ADDRESSES, _price_cache, price_pc,
             price_call >>
Pacing == << requests_per_sec, clock, _min_interval, _last_ts, pacer_pc,
            pacing >>
\* what trace() does not touch
Outside == << Units, Live, Pricing, Pacing >>
TraceLocals == << start_block, end_block, graph, q, seen_addr_depth,
                  total_edges_added, processed, contract_stats,
                  seen_edge_keys, addr, depth, new_edges, i, port_calls,
                  stages, visit_base, visits, events, raised, result,
                  block_calls, probe_calls >>

\* TraceConfig(kwargs): the generated __init__ of the frozen dataclass
MakeConfig ==
    /\ pc = "new"
    /\ IF DOMAIN kwargs \subseteq TraceConfigFields
       THEN /\ cfg' = [f \in TraceConfigFields |->
                          IF f \in DOMAIN kwargs THEN kwargs[f]
                          ELSE TraceConfigDefaults[f]]
            /\ pc' = "trace"
       ELSE /\ cfg' = cfg
            /\ pc' = "TypeError"
    /\ UNCHANGED << Inputs, Outside, Calls, TraceLocals >>

Hops == cfg.hops

\* variant with a seeded fault: the configured setting is not passed on
SkipContractCheckOff == FALSE

SkipContractCheck == GetAttr(cfg, "skip_contract_check", TRUE)
IgnoreUnknownPrice == GetAttr(cfg, "ignore_unknown_price", FALSE)
PerAddrLimit == GetAttr(cfg, "max_edges_per_address", 0)
MaxTotal == GetAttr(cfg, "max_total_edges", 0)

\* lines 41-46, with cfg.now_ts given
NowOf(c) == Val(c.now_ts)
StartTs(c) == NowOf(c) - c.days * 24 * 3600

StartData(c) ==
    [address |-> c.address, days |-> c.days, hops |-> c.hops,
     min_usd |-> c.min_usd, start_ts |-> StartTs(c), now_ts |-> NowOf(c)]

BlockCall(unix_ts, closest) == [unix_ts |-> unix_ts, closest |-> closest]

\* variant with a seeded fault: the end of the window is looked up first
BlockLookupsEndFirst(c) ==
    << BlockCall(NowOf(c), "before"), BlockCall(StartTs(c), "after") >>

\* lines 71-72: the lookups of the block window, in call order
BlockLookups(c) ==
    << BlockCall(StartTs(c), "after"), BlockCall(NowOf(c), "before") >>

\* variant with a seeded fault: the key set of the previous call is kept
KeptSeenEdgeKeys == seen_edge_keys

\* line 83: seen_edge_keys = set()
NewSeenEdgeKeys == {}

\* trace(), lines 41-83: the start event, the window, the empty graph, the queue
TraceStart ==
    /\ pc = "trace"
    /\ events' = _emit(events, on_progress, "start", StartData(cfg))
    /\ block_calls' = block_calls \o BlockLookups(cfg)
    /\ start_block' = get_block_number_by_time(BlockLookups(cfg)[1].unix_ts)
    /\ end_block' = get_block_number_by_time(BlockLookups(cfg)[2].unix_ts)
    /\ graph' = EmptyGraph
    /\ q' = << [address |-> Lower(cfg.address), depth |-> 0] >>
    /\ seen_addr_depth' = {}
    /\ total_edges_added' = 0
    /\ processed' = 0
    /\ contract_stats' = [checked |-> 0, errors |-> 0]
    /\ seen_edge_keys' = NewSeenEdgeKeys
    /\ pc' = "loop"
    /\ UNCHANGED << Inputs, Outside, Calls, cfg, addr, depth, new_edges, i, port_calls,
                    stages, visit_base, visits, raised, result, probe_calls >>

\* variant with a seeded fault: the memo of processed pairs is never hit
AlreadyProcessedNever(key, seen) == FALSE

\* lines 94-96: if key in seen_addr_depth: continue
AlreadyProcessed(key, seen) == key \in seen

\* lines 85-106: popleft, the two skips, the node of the address
Dequeue ==
    /\ pc = "loop"
    /\ q # <<>>
    /\ LET item == Head(q)
           a == Lower(item.address)
           key == << a, item.depth >>
       IN  /\ q' = Tail(q)
           /\ addr' = a
           /\ depth' = item.depth
           /\ processed' = processed + 1
           /\ IF item.depth > Hops \/ AlreadyProcessed(key, seen_addr_depth)
              THEN /\ pc' = "loop"
                   /\ UNCHANGED << seen_addr_depth, graph, contract_stats,
                                   new_edges, visit_base, events, raised,
                                   probe_calls >>
              ELSE LET r == _ensure_node(graph, a, on_progress, contract_stats,
                                         SkipContractCheck)
                   IN  /\ seen_addr_depth' = seen_addr_depth \cup {key}
                       /\ graph' = r.graph
                       /\ contract_stats' = r.stats
                       /\ events' = events \o r.emitted
                       /\ probe_calls' = probe_calls \o r.probed
                       /\ new_edges' = <<>>
                       /\ visit_base' = Len(graph.edges)
                       /\ IF IsNone(r.raised)
                          THEN pc' = "fetch_eth" /\ raised' = raised
                          ELSE pc' = "raised" /\ raised' = Propagated(r.raised)
    /\ UNCHANGED << Inputs, Outside, Calls, cfg, start_block, end_block,
                    total_edges_added, seen_edge_keys, i, port_calls, stages,
                    visits, result, block_calls >>

PortCall(name) ==
    [call |-> name, address |-> addr, depth |-> depth,
     total_edges_added |-> total_edges_added,
     start_block |-> start_block, end_block |-> end_block]

FetchData(phase) == [phase |-> phase, address |-> addr, depth |-> depth]
FetchDoneData(phase, edges) ==
    [phase |-> phase, address |-> addr, count |-> Len(edges)]

\* lines 110-113
FetchEth ==
    /\ pc = "fetch_eth"
    /\ LET eth_edges == _eth_edges_for(addr, start_block, end_block)
           ev1 == _emit(events, on_progress, "fetch", FetchData("eth"))
       IN  /\ new_edges' = new_edges \o eth_edges
           /\ events' = _emit(ev1, on_progress, "fetch_done",
                              FetchDoneData("eth", eth_edges))
    /\ port_calls' = Append(port_calls, PortCall("iter_normal_txs"))
    /\ pc' = "fetch_erc20"
    /\ UNCHANGED << Inputs, Outside, Calls, cfg, start_block, end_block, graph, q,
                    seen_addr_depth, total_edges_added, processed,
                    contract_stats, seen_edge_keys, addr, depth, i,
                    stages, visit_base, visits, raised, result, block_calls,
                    probe_calls >>

\* lines 115-123
FetchErc20 ==
    /\ pc = "fetch_erc20"
    /\ LET erc20_edges == _erc20_edges_for(addr, start_block, end_block,
                                           IgnoreUnknownPrice)
           ev1 == _emit(events, on_progress, "fetch", FetchData("erc20"))
       IN  /\ new_edges' = new_edges \o erc20_edges
           /\ events' = _emit(ev1, on_progress, "fetch_done",
                              FetchDoneData("erc20", erc20_edges))
    /\ port_calls' = Append(port_calls, PortCall("iter_erc20_transfers"))
    /\ pc' = "pipeline"
    /\ UNCHANGED << Inputs, Outside, Calls, cfg, start_block, end_block, graph, q,
                    seen_addr_depth, total_edges_added, processed,
                    contract_stats, seen_edge_keys, addr, depth, i,
                    stages, visit_base, visits, raised, result, block_calls,
                    probe_calls >>

\* lines 125-145: filter, dedupe, rank, the two caps (or the break)
Pipeline ==
    /\ pc = "pipeline"
    /\ LET filtered == _apply_min_usd(new_edges, cfg.min_usd)
           deduped == _dedupe_edges(filtered)
           ranked == SortByUsdDesc(deduped)
           capped == PerAddressCap(ranked, PerAddrLimit)
       IN  /\ IF BudgetExhausted(MaxTotal, total_edges_added)
              THEN /\ new_edges' = capped
                   /\ pc' = "break"
              ELSE /\ new_edges' = TotalCap(capped, MaxTotal, total_edges_added)
                   /\ pc' = "add"
           /\ stages' = [fetched |-> new_edges, filtered |-> filtered,
                         deduped |-> deduped]
    /\ i' = 1
    /\ UNCHANGED << Inputs, Outside, Calls, cfg, start_block, end_block, graph, q,
                    seen_addr_depth, total_edges_added, processed,
                    contract_stats, seen_edge_keys, addr, depth, port_calls,
                    visit_base, visits, events, raised, result, block_calls,
                    probe_calls >>

\* lines 148-168: one turn of "for e in new_edges"
AddEdge ==
    /\ pc = "add"
    /\ i <= Len(new_edges)
    /\ LET e == new_edges[i]
           edge_key == EdgeKey(e)
       IN  IF KeySeen(edge_key, seen_edge_keys)
           THEN /\ pc' = pc
                /\ UNCHANGED << seen_edge_keys, graph, total_edges_added,
                                contract_stats, events, raised, probe_calls >>
           ELSE LET g1 == [graph EXCEPT !.edges = Append(@, e)]
                    r1 == _ensure_node(g1, e.from_address, on_progress,
                                       contract_stats, SkipContractCheck)
                    r2 == IF IsNone(r1.raised)
                          THEN _ensure_node(r1.graph, e.to_address, on_progress,
                                            r1.stats, SkipContractCheck)
                          ELSE EnsureOutcome(r1.graph, r1.stats, <<>>, <<>>,
                                             r1.raised)
                IN  /\ seen_edge_keys' = seen_edge_keys \cup {edge_key}
                    /\ total_edges_added' = total_edges_added + 1
                    /\ graph' = r2.graph
                    /\ contract_stats' = r2.stats
                    /\ events' = events \o r1.emitted \o r2.emitted
                    /\ probe_calls' = probe_calls \o r1.probed \o r2.probed
                    /\ IF IsNone(r2.raised)
                       THEN pc' = pc /\ raised' = raised
                       ELSE pc' = "raised" /\ raised' = Propagated(r2.raised)
    /\ i' = i + 1
    /\ UNCHANGED << Inputs, Outside, Calls, cfg, start_block, end_block, q,
                    seen_addr_depth, processed, addr, depth, new_edges,
                    port_calls, stages, visit_base, visits, result,
                    block_calls >>

\* lines 170-185: the neighbours of the batch join the queue, the visit event
EnqueueNeighbors ==
    /\ pc = "add"
    /\ i > Len(new_edges)
    /\ LET neighbors == IF ShouldEnqueue(depth, Hops)
                        THEN _neighbor_addresses(addr, new_edges)
                        ELSE <<>>
       IN  /\ q' = q \o HopItems(neighbors, depth + 1)
           /\ visits' = Append(visits,
                  [address |-> addr, depth |-> depth,
                   fetched |-> stages.fetched, deduped |-> stages.deduped,
                   batch |-> new_edges,
                   base |-> visit_base,
                   appended |-> SubSeq(graph.edges, visit_base + 1,
                                       Len(graph.edges)),
                   enqueued |-> neighbors])
           /\ events' = _emit(events, on_progress, "visit",
                  [address |-> addr, depth |-> depth,
                   queue |-> Len(q) + Len(neighbors),
                   processed |-> processed, edges |-> total_edges_added])
    /\ pc' = "loop"
    /\ UNCHANGED << Inputs, Outside, Calls, cfg, start_block, end_block, graph,
                    seen_addr_depth, total_edges_added, processed,
                    contract_stats, seen_edge_keys, addr, depth, new_edges,
                    i, port_calls, stages, visit_base, raised, result,
                    block_calls, probe_calls >>

\* a variant with a seeded fault: the loop never sees its queue empty
QueueNeverEmpty(queue) == FALSE

\* line 85, while q: the test that ends the loop
QueueEmpty(queue) == queue = <<>>

\* lines 187-197: the loop is over (empty queue, or break): done, return graph
Return ==
    /\ \/ pc = "loop" /\ QueueEmpty(q)
       \/ pc = "break"
    /\ events' = _emit(events, on_progress, "done",
           [processed |-> processed, nodes |-> Len(graph.nodes),
            edges |-> Len(graph.edges),
            contract_checked |-> contract_stats.checked,
            contract_errors |-> contract_stats.errors])
    /\ result' = Some(graph)
    /\ pc' = "done"
    /\ UNCHANGED << Inputs, Outside, Calls, cfg, start_block, end_block, graph, q,
                    seen_addr_depth, total_edges_added, processed,
                    contract_stats, seen_edge_keys, addr, depth, new_edges,
                    i, port_calls, stages, visit_base, visits, raised,
                    block_calls, probe_calls >>

\* the caller keeps the returned graph and calls trace(cfg) again on the same
\* TracerService; the histories start over with the call
TraceAgain ==
    /\ pc = "done"
    /\ invocation = 1
    /\ invocation' = 2
    /\ first_result' = result
    /\ result' = None
    /\ events' = <<>>
    /\ block_calls' = <<>>
    /\ probe_calls' = <<>>
    /\ port_calls' = <<>>
    /\ visits' = <<>>
    /\ stages' = NoStages
    /\ pc' = "trace"
    /\ UNCHANGED << Inputs, Outside, cfg, start_block, end_block, graph, q,
                    seen_addr_depth, total_edges_added, processed,
                    contract_stats, seen_edge_keys, addr, depth, new_edges,
                    i, visit_base, raised >>

Next ==
    \/ MakeConfig
    \/ TraceStart
    \/ Dequeue
    \/ FetchEth
    \/ FetchErc20
    \/ Pipeline
    \/ AddEdge
    \/ EnqueueNeighbors
    \/ Return
    \/ TraceAgain

Spec == Init /\ [][Next]_vars

\* ------------------------------------------------------------ FaultSpec
\* trace() reads skip_contract_check and ignore_unknown_price with getattr
\* (lines 105, 120): a configuration object that carries them, as a subclass
\* of TraceConfig declaring the two fields does
ConfigObjects ==
    [address : {Seed}, days : {1}, hops : 0..1, min_usd : {Dec(0, 0)},
     now_ts : {Some(NowTs)}, max_edges_per_address : {0},
     max_total_edges : {0}, ignore_unknown_price : BOOLEAN,
     skip_contract_check : BOOLEAN]

\* one native transfer from the seed to each of FanSize counterparties
FanChain ==
    [k \in 1..FanSize |->
        [tx_hash |-> "0xf" \o Digits[(k \div 10) + 1] \o Digits[(k % 10) + 1],
         block_number |-> 10, timestamp |-> 900,
         from_address |-> A, to_address |-> FanAddr(k),
         value_wei |-> Dec(1, 18)]]

\* a chain port that reports the seed as a contract and whose probe fails
\* for B and for the first and the last of the counterparties
FailingContracts ==
    [a \in {A, B, FanAddr(1), FanAddr(FanSize)} |->
        IF a = A THEN "contract" ELSE "raises"]

InitFault ==
    /\ cfg \in ConfigObjects
    /\ kwargs = cfg
    /\ \/ eth_transfers = FanChain /\ erc20_transfers = <<>>
       \/ \E S1 \in SUBSET (1..Len(EthPool)), S2 \in SUBSET (1..Len(Erc20Pool)) :
             /\ Cardinality(S1) + Cardinality(S2) <= 2
             /\ eth_transfers = Pick(EthPool, S1)
             /\ erc20_transfers = Pick(Erc20Pool, S2)
    /\ contract \in {StaticContracts, FailingContracts}
    /\ on_progress \in {"none", "ok", "raises"}
    /\ pc = "trace"
    /\ Idle
    /\ UnitsIdle
    /\ PricingIdle
    /\ PacingIdle
    /\ LiveIdle

\* what a failing port call leaves: the exception and, before it, the calls
Fails(exc) ==
    /\ raised' = Propagated(exc)
    /\ pc' = "raised"
    /\ UNCHANGED << Inputs, Outside, Calls, cfg, start_block, end_block, graph, q,
                    seen_addr_depth, total_edges_added, processed,
                    contract_stats, seen_edge_keys, addr, depth, new_edges,
                    i, stages, visit_base, visits, result, probe_calls >>

\* lines 58-72 with a chain port that cannot resolve the first or the second
\* block: the port raises DataSourceError
BlockLookupRaises ==
    /\ pc = "trace"
    /\ events' = _emit(events, on_progress, "start", StartData(cfg))
    /\ \E n \in 1..2 :
          block_calls' = block_calls \o SubSeq(BlockLookups(cfg), 1, n)
    /\ port_calls' = port_calls
    /\ Fails(Exc("DataSourceError", "get_block_number_by_time"))

\* line 111 with a chain port whose iteration raises DataSourceError
IterNormalRaises ==
    /\ pc = "fetch_eth"
    /\ events' = _emit(events, on_progress, "fetch", FetchData("eth"))
    /\ port_calls' = Append(port_calls, PortCall("iter_normal_txs"))
    /\ block_calls' = block_calls
    /\ Fails(Exc("DataSourceError", "iter_normal_txs"))

\* lines 116-121 with a chain port whose iteration raises DataSourceError
IterErc20Raises ==
    /\ pc = "fetch_erc20"
    /\ events' = _emit(events, on_progress, "fetch", FetchData("erc20"))
    /\ port_calls' = Append(port_calls, PortCall("iter_erc20_transfers"))
    /\ block_calls' = block_calls
    /\ Fails(Exc("DataSourceError", "iter_erc20_transfers"))

\* line 213 with a price port that raises an error of its own while a
\* native transfer is priced
EthPriceRaises ==
    /\ pc = "fetch_eth"
    /\ \E k \in 1..Len(iter_normal_txs(addr, start_block, end_block)) :
          EthValuePositive(iter_normal_txs(addr, start_block, end_block)[k])
    /\ events' = _emit(events, on_progress, "fetch", FetchData("eth"))
    /\ port_calls' = Append(port_calls, PortCall("iter_normal_txs"))
    /\ block_calls' = block_calls
    /\ Fails(Exc("ValueError", "get_eth_usd_price"))

\* line 250 with a price port that raises an error of its own while a
\* token transfer is priced
TokenPriceRaises ==
    /\ pc = "fetch_erc20"
    /\ iter_erc20_transfers(addr, start_block, end_block) # <<>>
    /\ events' = _emit(events, on_progress, "fetch", FetchData("erc20"))
    /\ port_calls' = Append(port_calls, PortCall("iter_erc20_transfers"))
    /\ block_calls' = block_calls
    /\ Fails(Exc("ValueError", "get_token_usd_price"))

NextFault ==
    \/ TraceStart
    \/ Dequeue
    \/ FetchEth
    \/ FetchErc20
    \/ Pipeline
    \/ AddEdge
    \/ EnqueueNeighbors
    \/ Return
    \/ BlockLookupRaises
    \/ IterNormalRaises
    \/ IterErc20Raises
    \/ EthPriceRaises
    \/ TokenPriceRaises

FaultSpec == InitFault /\ [][NextFault]_vars

\* ---------------------------------------------------------------- claims
Key5(e) ==
    << e.tx_hash, e.from_address, e.to_address, e.asset_type, e.token_address >>

VisitInProgress == pc \in {"fetch_eth", "fetch_erc20", "pipeline", "add"}

\* C1: at every point of the traversal and in the returned graph, the from
\* and the to address of every edge of graph.edges are keys of graph.nodes.
C1_EdgeEndpointsAreNodes ==
    \A k \in 1..Len(graph.edges) :
        /\ graph.edges[k].from_address \in NodeAddrs(graph)
        /\ graph.edges[k].to_address \in NodeAddrs(graph)

\* an edge was inserted during a later visit and brought a new node
C1_Witness ==
    /\ pc = "add"
    /\ visits # <<>>
    /\ Len(graph.edges) > visit_base
    /\ Len(graph.nodes) >= 3

\* C2: graph.edges never holds two edges with the same key
\* (tx_hash, from, to, asset_type, token_address).
C2_NoDuplicateEdgeKeys ==
    \A j, k \in 1..Len(graph.edges) :
        j < k => Key5(graph.edges[j]) # Key5(graph.edges[k])

\* a transfer recorded from one endpoint was found again from the other
C2_Witness ==
    /\ pc = "done"
    /\ \E k \in 1..Len(visits) :
          /\ visits[k].depth > 0
          /\ \E n \in 1..Len(visits[k].batch), m \in 1..visits[k].base :
                Key5(visits[k].batch[n]) = Key5(graph.edges[m])

\* C3: with max_total_edges > 0 the graph never holds more than
\* max_total_edges edges.
C3_TotalEdgesCap ==
    MaxTotal > 0 => Len(graph.edges) <= MaxTotal

\* the budget was reached in a later visit whose batch had to be cut
C3_Witness ==
    /\ MaxTotal > 0
    /\ pc = "add"
    /\ visits # <<>>
    /\ i > Len(new_edges)
    /\ Len(graph.edges) = MaxTotal
    /\ Len(stages.deduped) > Len(new_edges)

\* C4: no transfer iteration is issued once the edge count has reached
\* max_total_edges.
C4_NoFetchAfterBudget ==
    \A k \in 1..Len(port_calls) :
        MaxTotal > 0 => port_calls[k].total_edges_added < MaxTotal

\* C5: with max_edges_per_address > 0 one visit of an (address, depth) pair
\* appends at most max_edges_per_address edges.
C5_PerAddressCap ==
    PerAddrLimit > 0 =>
        /\ \A k \in 1..Len(visits) :
              Len(visits[k].appended) <= PerAddrLimit
        /\ VisitInProgress => Len(graph.edges) - visit_base <= PerAddrLimit

\* a visit had more distinct candidates than the cap and appended the cap
C5_Witness ==
    /\ PerAddrLimit > 0
    /\ \E k \in 1..Len(visits) :
          /\ Len(visits[k].deduped) > PerAddrLimit
          /\ Len(visits[k].appended) = PerAddrLimit

\* what the filter is to keep: everything when min_usd is 0
C6_Kept(e) ==
    \/ cfg.min_usd.m = 0
    \/ IsNone(e.usd_value)
    \/ ~DecLT(Val(e.usd_value), cfg.min_usd)

\* C6: the min_usd filter keeps exactly the edges whose usd_value is unknown
\* or >= min_usd, and every edge when min_usd is 0; so with min_usd > 0 every
\* edge of the graph with a known usd_value has usd_value >= min_usd.
C6_MinUsdFilter ==
    /\ stages.filtered = SelectSeq(stages.fetched, C6_Kept)
    /\ cfg.min_usd.m > 0 =>
          \A k \in 1..Len(graph.edges) :
              \/ IsNone(graph.edges[k].usd_value)
              \/ ~DecLT(Val(graph.edges[k].usd_value), cfg.min_usd)

\* the filter removed a priced edge and kept an edge without a price
C6_Witness ==
    /\ cfg.min_usd.m > 0
    /\ Len(stages.filtered) < Len(stages.fetched)
    /\ \E k \in 1..Len(stages.filtered) : IsNone(stages.filtered[k].usd_value)
    /\ \E k \in 1..Len(graph.edges) : IsNone(graph.edges[k].usd_value)

\* the caller passed ignore_unknown_price=True
IgnoreUnknownPriceAsked ==
    /\ "ignore_unknown_price" \in DOMAIN kwargs
    /\ kwargs.ignore_unknown_price

\* C7: a trace asked for with ignore_unknown_price = True returns a graph
\* that holds no token edge without usd_value.
C7_IgnoreUnknownPriceDropsEdges ==
    (IgnoreUnknownPriceAsked /\ pc \in {"TypeError", "done"}) =>
        /\ pc = "done"
        /\ \A k \in 1..Len(graph.edges) :
              graph.edges[k].asset_type = "ERC20" =>
                  ~IsNone(graph.edges[k].usd_value)

\* the chain data as a graph: in-window rows that carry value
InWindow(t) == start_block <= t.block_number /\ t.block_number <= end_block

EthRows ==
    { k \in 1..Len(eth_transfers) :
        InWindow(eth_transfers[k]) /\ eth_transfers[k].value_wei.m > 0 }

Erc20Rows == { k \in 1..Len(erc20_transfers) : InWindow(erc20_transfers[k]) }

Links ==
    { << Lower(eth_transfers[k].from_address),
         Lower(eth_transfers[k].to_address) >> : k \in EthRows } \cup
    { << Lower(erc20_transfers[k].from_address),
         Lower(erc20_transfers[k].to_address) >> : k \in Erc20Rows }

Near(S) ==
    S \cup { l[2] : l \in { x \in Links : x[1] \in S } }
      \cup { l[1] : l \in { x \in Links : x[2] \in S } }

RECURSIVE Within(_)
Within(n) == IF n <= 0 THEN {Lower(cfg.address)} ELSE Near(Within(n - 1))

IncidentKeys(S) ==
    { << eth_transfers[k].tx_hash, Lower(eth_transfers[k].from_address),
         Lower(eth_transfers[k].to_address), "ETH", None >> :
        k \in { r \in EthRows :
                  \/ Lower(eth_transfers[r].from_address) \in S
                  \/ Lower(eth_transfers[r].to_address) \in S } } \cup
    { << erc20_transfers[k].tx_hash, Lower(erc20_transfers[k].from_address),
         Lower(erc20_transfers[k].to_address), "ERC20",
         Some(Lower(erc20_transfers[k].token_address)) >> :
        k \in { r \in Erc20Rows :
                  \/ Lower(erc20_transfers[r].from_address) \in S
                  \/ Lower(erc20_transfers[r].to_address) \in S } }

Visited == { visits[k].address : k \in 1..Len(visits) }

Unfiltered ==
    /\ cfg.min_usd.m = 0
    /\ PerAddrLimit = 0
    /\ MaxTotal = 0
    /\ ~IgnoreUnknownPrice
    /\ Hops >= 0

\* C8: with min_usd = 0, no caps and ignore_unknown_price false, trace()
\* with hops = h visits exactly the addresses within h in-window transfers of
\* the seed, the returned graph holds exactly one edge for every in-window
\* transfer (native with value > 0, or token) incident to a visited address,
\* and the nodes are the addresses within h + 1 transfers.
C8_CompleteWithinHops ==
    (pc = "done" /\ Unfiltered) =>
        /\ Visited = Within(Hops)
        /\ \A key \in IncidentKeys(Visited) :
              Cardinality({ k \in 1..Len(graph.edges) :
                              Key5(graph.edges[k]) = key }) = 1
        /\ \A k \in 1..Len(graph.edges) :
              Key5(graph.edges[k]) \in IncidentKeys(Visited)
        /\ NodeAddrs(graph) = Within(Hops + 1)

\* a three-transfer chain traced with hops = 2: the address at distance 3
\* is a node and was not visited
C8_Witness ==
    /\ pc = "done"
    /\ Unfiltered
    /\ Hops = 2
    /\ Len(graph.edges) = 3
    /\ D \in NodeAddrs(graph)
    /\ D \notin Visited
    /\ D \notin Within(2)

\* C9: no address is fetched at a depth greater than hops; with hops = 0 only
\* the seed is fetched and nothing is enqueued after it.
C9_FetchDepthBounded ==
    /\ \A k \in 1..Len(port_calls) : port_calls[k].depth <= Hops
    /\ Hops = 0 =>
          /\ \A k \in 1..Len(port_calls) :
                port_calls[k].address = Lower(cfg.address)
          /\ port_calls # <<>> => q = <<>>

\* hops = 0 and the seed has counterparties
C9_Witness ==
    /\ pc = "done"
    /\ Hops = 0
    /\ Len(port_calls) = 2
    /\ Len(graph.nodes) >= 3

\* C10: a visit at depth < hops enqueues exactly the counterparties (other
\* than the address itself) of the edges it appended to the graph, in sorted
\* order; an edge skipped by the global dedupe enqueues nothing.
C10_EnqueuedAreAcceptedCounterparties ==
    \A k \in 1..Len(visits) :
        visits[k].depth < Hops =>
            visits[k].enqueued =
                SortedAddrs(Endpoints(visits[k].appended) \ {visits[k].address})

SinkRaised == ~IsNone(raised) /\ Val(raised).type = "SinkError"

\* C11: an exception raised by the progress sink, whatever the event kind
\* (start, fetch, fetch_done, contract_progress, visit, done), never leaves
\* trace(): the call still returns its graph.
C11_SinkExceptionsSwallowed == ~SinkRaised

ChainSites ==
    {"get_block_number_by_time", "iter_normal_txs", "iter_erc20_transfers"}

ChainFailed == ~IsNone(raised) /\ Val(raised).site \in ChainSites

DoneEmitted == \E k \in 1..Len(events) : events[k].event = "done"

\* C12: when a call of the chain port fails (a block lookup, or a transfer
\* iteration for any address), the port's DataSourceError leaves trace():
\* the call ends there, returns no Graph and emits no done event, whatever
\* was already in the graph it was building.
C12_ChainFailurePropagates ==
    ChainFailed =>
        /\ Val(raised).type = "DataSourceError"
        /\ pc = "raised"
        /\ IsNone(result)
        /\ ~DoneEmitted

\* a later address's iteration fails after edges were accepted for the seed
C12_Witness ==
    /\ ChainFailed
    /\ Val(raised).site = "iter_erc20_transfers"
    /\ depth = 1
    /\ Len(graph.edges) > 0
    /\ on_progress = "ok"

PriceSites == {"get_eth_usd_price", "get_token_usd_price"}

\* C13: an error that is not a DataSourceError and is raised inside trace(),
\* here by the price port while a transfer is priced, reaches the caller as
\* a TracerError.
C13_UnexpectedErrorsWrapped ==
    (~IsNone(raised) /\ Val(raised).site \in PriceSites) =>
        Val(raised).type = "TracerError"

SecondReturned == pc = "done" /\ invocation = 2

\* C14: two invocations of trace() on one service, with the same config
\* (fixed now_ts), the same static chain and the same static prices, return
\* identical graphs: the same nodes in the same insertion order and the same
\* edge sequence; nothing the first invocation left behind shows in the second.
C14_SecondCallReturnsSameGraph ==
    SecondReturned =>
        /\ ~IsNone(first_result)
        /\ Val(result).nodes = Val(first_result).nodes
        /\ Val(result).edges = Val(first_result).edges

\* a second traversal that went two hops and accepted several edges
C14_Witness ==
    /\ SecondReturned
    /\ Len(Val(result).edges) >= 2
    /\ Len(Val(result).nodes) >= 3
    /\ \E k \in 1..Len(visits) : visits[k].depth = 2

IsCanonical(a) == Lower(a) = a

\* C15: every address stored in the graph is canonical lowercase, however
\* the seed and the raw transfers spell it: each node's key and address,
\* each edge's from and to, each edge's token address; and two spellings of
\* one address give one node.
C15_AddressesCanonical ==
    /\ \A k \in 1..Len(graph.nodes) : IsCanonical(graph.nodes[k].address)
    /\ \A k, j \in 1..Len(graph.nodes) :
          Lower(graph.nodes[k].address) = Lower(graph.nodes[j].address) => k = j
    /\ \A k \in 1..Len(graph.edges) :
          /\ IsCanonical(graph.edges[k].from_address)
          /\ IsCanonical(graph.edges[k].to_address)
          /\ IsNone(graph.edges[k].token_address)
                \/ IsCanonical(Val(graph.edges[k].token_address))

\* the seed, a sender and a token are all spelled in upper case by the input
C15_Witness ==
    /\ pc = "done"
    /\ ~IsCanonical(cfg.address)
    /\ \E k \in 1..Len(eth_transfers) :
          /\ ~IsCanonical(eth_transfers[k].from_address)
          /\ \E j \in 1..Len(graph.edges) :
                /\ graph.edges[j].tx_hash = eth_transfers[k].tx_hash
                /\ graph.edges[j].asset_type = "ETH"
    /\ \E k \in 1..Len(erc20_transfers) :
          /\ ~IsCanonical(erc20_transfers[k].token_address)
          /\ \E j \in 1..Len(graph.edges) :
                /\ graph.edges[j].tx_hash = erc20_transfers[k].tx_hash
                /\ graph.edges[j].asset_type = "ERC20"
    /\ Len(graph.nodes) = 3

\* C16: whenever trace() returns and hops >= 0, the returned graph has the
\* canonical (lowercase) seed address among its nodes, even when no edge was
\* accepted.
C16_SeedIsNode ==
    (pc = "done" /\ cfg.hops >= 0) =>
        Lower(cfg.address) \in NodeAddrs(Val(result))

\* the chain has a row for the seed, yet the returned graph has no edge
C16_Witness ==
    /\ pc = "done"
    /\ cfg.hops >= 0
    /\ iter_normal_txs(cfg.address, start_block, end_block) # <<>>
    /\ Val(result).edges = <<>>
    /\ Len(Val(result).nodes) = 1

WindowLookups ==
    << [unix_ts |-> Val(cfg.now_ts) - cfg.days * 86400, closest |-> "after"],
       [unix_ts |-> Val(cfg.now_ts), closest |-> "before"] >>

BeforeWindow == pc \in {"new", "TypeError", "trace"}

\* C17: the block window is resolved once per trace:
\* get_block_number_by_time is called exactly twice, first with
\* (now_ts - days*86400, "after"), then with (now_ts, "before"), before any
\* transfer is fetched; every transfer-iteration call, for every address,
\* is given the two blocks these lookups returned.
C17_WindowResolvedOnce ==
    /\ BeforeWindow => block_calls = <<>> /\ port_calls = <<>>
    /\ ~BeforeWindow => block_calls = WindowLookups
    /\ \A k \in 1..Len(port_calls) :
          /\ port_calls[k].start_block =
                get_block_number_by_time(WindowLookups[1].unix_ts)
          /\ port_calls[k].end_block =
                get_block_number_by_time(WindowLookups[2].unix_ts)

\* a returned trace that fetched for at least two addresses
C17_Witness ==
    /\ pc = "done"
    /\ \E k, j \in 1..Len(port_calls) :
          port_calls[k].address # port_calls[j].address
    /\ port_calls[1].start_block # port_calls[1].end_block

Spellings(a) == {a} \cup { s \in {"0xAAAA", "0xBBBB", "0xCCCC"} : Lower(s) = a }

ProbeOutcomes == {"contract", "eoa", "raises"}

Sinks == {"none", "ok", "raises"}

\* C18: once a node is stored for an address, a later _ensure_node call for
\* that address, whatever its skip setting, whatever the probe would answer
\* and however the address is spelled, leaves the node, its is_contract flag
\* and its place as they are (it returns before probing); and no step of
\* trace() changes a stored node.
C18_FirstTagIsFinal ==
    /\ [](\A k \in 1..Len(graph.nodes) :
            \A sp \in Spellings(graph.nodes[k].address) :
              \A probe \in ProbeOutcomes, skip \in BOOLEAN, sink \in Sinks :
                EnsureNode(probe, graph, sp, sink, contract_stats, skip) =
                    EnsureOutcome(graph, contract_stats, <<>>, <<>>, None))
    /\ [][\A k \in 1..Len(graph.nodes) :
             /\ k <= Len(graph'.nodes)
             /\ graph'.nodes[k] = graph.nodes[k]]_vars

\* the seed was tagged a contract by its probe, then ensured again as the
\* sender of an accepted edge
C18_Witness ==
    /\ ~SkipContractCheck
    /\ Len(graph.nodes) >= 2
    /\ graph.nodes[1].is_contract
    /\ \E k \in 1..Len(graph.edges) :
          graph.edges[k].from_address = graph.nodes[1].address

SkipAsked == GetAttr(cfg, "skip_contract_check", TRUE)

\* C19: when skip_contract_check is true, chain.is_contract is never called
\* during the trace, every node has is_contract = false, no contract_progress
\* is emitted, and the contract_checked and contract_errors counters reported
\* by the done event are 0.
C19_SkipMeansNoProbe ==
    SkipAsked =>
        /\ probe_calls = <<>>
        /\ \A k \in 1..Len(graph.nodes) : ~graph.nodes[k].is_contract
        /\ contract_stats = [checked |-> 0, errors |-> 0]
        /\ \A k \in 1..Len(events) :
              /\ events[k].event # "contract_progress"
              /\ events[k].event = "done" =>
                    /\ events[k].data.contract_checked = 0
                    /\ events[k].data.contract_errors = 0

\* a returned trace, probing skipped, whose nodes include an address the
\* chain would report as a contract; the sink received the done event
C19_Witness ==
    /\ pc = "done"
    /\ SkipAsked
    /\ DoneEmitted
    /\ Len(graph.nodes) >= 2
    /\ \E k \in 1..Len(graph.nodes) :
          is_contract(graph.nodes[k].address) = "contract"

ProbeRaised(a) == is_contract(a) = "raises"

FailedProbes == { k \in 1..Len(probe_calls) : ProbeRaised(probe_calls[k]) }

IsPrefix(s, t) == Len(s) <= Len(t) /\ SubSeq(t, 1, Len(s)) = s

\* the place of the first edge with e's key in the sequence es
FirstIndex(es, e) ==
    CHOOSE k \in 1..Len(es) :
        /\ Key5(es[k]) = Key5(e)
        /\ \A j \in 1..(k - 1) : Key5(es[j]) # Key5(e)

\* the block of the raw row an edge was built from
BlockOf(e) ==
    IF e.asset_type = "ETH"
    THEN LET k == CHOOSE k \in 1..Len(eth_transfers) :
                      eth_transfers[k].tx_hash = e.tx_hash
         IN  eth_transfers[k].block_number
    ELSE LET k == CHOOSE k \in 1..Len(erc20_transfers) :
                      erc20_transfers[k].tx_hash = e.tx_hash
         IN  erc20_transfers[k].block_number

UsdKnown(e) == ~IsNone(e.usd_value)

\* usd_value non-increasing, unknown after known
RankedBefore(x, y) ==
    /\ UsdKnown(y) => UsdKnown(x) /\ DecGE(Val(x.usd_value), Val(y.usd_value))

SameUsd(x, y) ==
    \/ ~UsdKnown(x) /\ ~UsdKnown(y)
    \/ UsdKnown(x) /\ UsdKnown(y) /\ DecGE(Val(x.usd_value), Val(y.usd_value))
          /\ DecGE(Val(y.usd_value), Val(x.usd_value))

\* native before token, ascending block
FetchedBefore(x, y) ==
    \/ x.asset_type = "ETH" /\ y.asset_type = "ERC20"
    \/ x.asset_type = y.asset_type /\ BlockOf(x) <= BlockOf(y)

\* C21: graph.edges only grows during a trace and is ordered by acceptance:
\* the edges appended by the visits lie one after the other in dequeue
\* (breadth-first) order; within the edges one visit appended, usd_value is
\* non-increasing with every unknown-usd edge after every known-usd edge,
\* and edges of equal usd keep their fetch order (native before token,
\* ascending block).
C21_EdgesInAcceptanceOrder ==
    /\ [](/\ \A k \in 1..Len(visits) :
               /\ visits[k].base =
                     (IF k = 1 THEN 0
                      ELSE visits[k - 1].base + Len(visits[k - 1].appended))
               /\ visits[k].appended =
                     SubSeq(graph.edges, visits[k].base + 1,
                            visits[k].base + Len(visits[k].appended))
               /\ k > 1 => visits[k - 1].depth <= visits[k].depth
               /\ \A a, b \in 1..Len(visits[k].appended) :
                     a < b =>
                       LET x == visits[k].appended[a]
                           y == visits[k].appended[b]
                       IN  /\ RankedBefore(x, y)
                           /\ SameUsd(x, y) =>
                                 /\ FirstIndex(visits[k].fetched, x) <
                                       FirstIndex(visits[k].fetched, y)
                                 /\ FetchedBefore(x, y))
    /\ [][pc # "trace" => IsPrefix(graph.edges, graph'.edges)]_vars

\* the seed's visit appended a native and a token edge of equal usd, in
\* that order, and a later visit appended more
C21_Witness ==
    /\ pc = "done"
    /\ Len(visits) >= 2
    /\ \E a, b \in 1..Len(visits[1].appended) :
          /\ a < b
          /\ visits[1].appended[a].asset_type = "ETH"
          /\ visits[1].appended[b].asset_type = "ERC20"
          /\ SameUsd(visits[1].appended[a], visits[1].appended[b])
          /\ UsdKnown(visits[1].appended[a])
    /\ \E k \in 2..Len(visits) : visits[k].appended # <<>>

\* ------------------------------------- amounts of integers of any width
\* The raw rows carry Python integers, which have no width.  Here such an
\* integer is the sequence of its decimal digits, most significant first,
\* and a Decimal is [digits, exp]: the integer of the digits times 10^exp.

\* decimal.getcontext().prec: the default context, which src/ never changes;
\* its rounding is ROUND_HALF_EVEN
DecimalPrec == 28

Rep(d, n) == [k \in 1..n |-> d]

\* the digits without trailing zeros, and how many were dropped
RECURSIVE TrailingZeros(_)
TrailingZeros(ds) ==
    IF Len(ds) <= 1 \/ ds[Len(ds)] # 0 THEN 0
    ELSE 1 + TrailingZeros(SubSeq(ds, 1, Len(ds) - 1))

\* the one representation of the value of x: no trailing zero digit
Normal(x) ==
    LET z == TrailingZeros(x.digits)
    IN  IF x.digits = Rep(0, Len(x.digits))
        THEN [digits |-> << 0 >>, exp |-> 0]
        ELSE [digits |-> SubSeq(x.digits, 1, Len(x.digits) - z),
              exp |-> x.exp + z]

\* the digits of n + 1
RECURSIVE Succ(_)
Succ(ds) ==
    IF ds = << >> THEN << 1 >>
    ELSE IF ds[Len(ds)] < 9
         THEN SubSeq(ds, 1, Len(ds) - 1) \o << ds[Len(ds)] + 1 >>
         ELSE Succ(SubSeq(ds, 1, Len(ds) - 1)) \o << 0 >>

\* Decimal(v) for an int v: exact, whatever the number of digits
Decimal(v) == [digits |-> v, exp |-> 0]

\* what the context does to the result of an operation: at most DecimalPrec
\* significant digits, the dropped ones rounded half to even
RoundHalfEven(x) ==
    LET n == Len(x.digits)
        k == n - DecimalPrec
        kept == SubSeq(x.digits, 1, DecimalPrec)
        rest == SubSeq(x.digits, DecimalPrec + 1, n)
        up == \/ rest[1] > 5
              \/ /\ rest[1] = 5
                 /\ \/ \E j \in 2..k : rest[j] # 0
                    \/ kept[DecimalPrec] % 2 = 1
        r == IF up THEN Succ(kept) ELSE kept
    IN  IF k <= 0 THEN x
        ELSE IF Len(r) > DecimalPrec
             THEN [digits |-> SubSeq(r, 1, DecimalPrec), exp |-> x.exp + k + 1]
             ELSE [digits |-> r, exp |-> x.exp + k]

\* x / Decimal(10) ** n: the quotient is x with the exponent lowered, and
\* the division rounds it to the context
DecimalDivPow10(x, n) == RoundHalfEven([digits |-> x.digits, exp |-> x.exp - n])

\* amount_eth = Decimal(tx.value_wei) / WEI_PER_ETH
amount_eth_of(value_wei) == DecimalDivPow10(Decimal(value_wei), WeiExp)

\* amount = Decimal(tx.value_raw), divided when the decimals are known
amount_of(value_raw, decimals) ==
    IF IsNone(decimals) THEN Decimal(value_raw)
    ELSE DecimalDivPow10(Decimal(value_raw), Val(decimals))

\* the longest integer tried
MaxDigits == 30

\* integers of every length up to MaxDigits: 11..1, 99..9, 10..0, 10..01,
\* 11..15 and 12..25 (the last two end on a half when one digit is dropped)
IntsOfLen(n) ==
    { Rep(1, n), Rep(9, n), << 1 >> \o Rep(0, n - 1) }
      \cup (IF n < 2 THEN { << 0 >> }
            ELSE { << 1 >> \o Rep(0, n - 2) \o << 1 >>,
                   Rep(1, n - 1) \o << 5 >>,
                   << 1 >> \o Rep(2, n - 2) \o << 5 >> })
Ints == UNION { IntsOfLen(n) : n \in 1..MaxDigits }

\* tokenDecimal of the rows: unknown, 0, 6 (USDC) and 18
TokenDecimals == { None, Some(0), Some(6), Some(18) }

\* a service that is not tracing
NoTrace ==
    /\ kwargs = [address |-> Seed]
    /\ eth_transfers = << >>
    /\ erc20_transfers = << >>
    /\ contract = StaticContracts
    /\ on_progress = "none"
    /\ pc = "off"
    /\ cfg = NoCfg
    /\ Idle

InitAmount ==
    /\ NoTrace
    /\ \E v \in Ints :
          \/ transfer = [asset |-> "ETH", value |-> v, decimals |-> Some(WeiExp)]
          \/ \E d \in TokenDecimals :
                transfer = [asset |-> "ERC20", value |-> v, decimals |-> d]
    /\ edge_amount = None
    /\ LiveIdle
    /\ PricingIdle
    /\ PacingIdle

TraceVars == << Inputs, Calls, TraceLocals, pc, cfg >>

\* lines 209-214: a native row with value_wei > 0 gets an edge
EthAmount ==
    /\ transfer.asset = "ETH"
    /\ IsNone(edge_amount)
    /\ transfer.value # << 0 >>
    /\ edge_amount' = Some(amount_eth_of(transfer.value))
    /\ UNCHANGED << TraceVars, Live, Pricing, Pacing, transfer >>

\* lines 245-248: every token row gets an amount
Erc20Amount ==
    /\ transfer.asset = "ERC20"
    /\ IsNone(edge_amount)
    /\ edge_amount' = Some(amount_of(transfer.value, transfer.decimals))
    /\ UNCHANGED << TraceVars, Live, Pricing, Pacing, transfer >>

NextAmount ==
    \/ EthAmount
    \/ Erc20Amount

AmountSpec == InitAmount /\ [][NextAmount]_vars

\* amount * 10^d and the raw integer are the same number
ScalesBackTo(amount, d, v) ==
    Normal([digits |-> amount.digits, exp |-> amount.exp + d]) = Normal(Decimal(v))

\* C22: for every edge built from a non-negative integer, of any number of
\* digits, the amount times 10^18 (native) or times 10^d (token with known
\* decimals d) is exactly the raw integer.
C22_AmountRoundTripExact ==
    (~IsNone(edge_amount) /\ ~IsNone(transfer.decimals))
        => ScalesBackTo(Val(edge_amount), Val(transfer.decimals), transfer.value)

\* the native rows of the chain that iter_normal_txs hands out for addr
NativeRowsOfAddr ==
    { j \in 1..Len(eth_transfers) :
        /\ eth_transfers[j].block_number >= start_block
        /\ eth_transfers[j].block_number <= end_block
        /\ addr \in { Lower(eth_transfers[j].from_address),
                      Lower(eth_transfers[j].to_address) } }

PositiveNativeRows == { j \in NativeRowsOfAddr : eth_transfers[j].value_wei.m > 0 }

\* e is the NATIVE edge of row t: same transfer, amount = value / 10^18 and
\* a known usd_value = amount * native_usd(timestamp)
NativeEdgeOf(e, t) ==
    /\ e.asset_type = "ETH"
    /\ e.tx_hash = t.tx_hash
    /\ e.timestamp = t.timestamp
    /\ e.from_address = Lower(t.from_address)
    /\ e.to_address = Lower(t.to_address)
    /\ Dec(e.amount.m, e.amount.e + WeiExp) = t.value_wei
    /\ ~IsNone(e.usd_value)
    /\ Val(e.usd_value) = Dec(e.amount.m * get_eth_usd_price(t.timestamp).m,
                              e.amount.e + get_eth_usd_price(t.timestamp).e)

\* C23: after the native fetch of an address, the batch holds one NATIVE edge
\* for each of the address's raw native transfers whose value is > 0 and none
\* for the others; each such edge has a known usd_value equal to
\* amount * native_usd(timestamp), with amount = value / 10^18.
C23_NativeEdgeIffPositive ==
    pc = "fetch_erc20" =>
        /\ Len(new_edges) = Cardinality(PositiveNativeRows)
        /\ \A k \in 1..Len(new_edges) :
              \E j \in PositiveNativeRows :
                  NativeEdgeOf(new_edges[k], eth_transfers[j])
        /\ \A j \in PositiveNativeRows :
              \E k \in 1..Len(new_edges) :
                  NativeEdgeOf(new_edges[k], eth_transfers[j])

\* the seed has a row of 1 ETH, which gave an edge worth the price of one
\* ETH, and a row of value 0, which gave none
C23_Witness ==
    /\ pc = "fetch_erc20"
    /\ \E j \in NativeRowsOfAddr : eth_transfers[j].value_wei.m = 0
    /\ \E k \in 1..Len(new_edges) :
          /\ new_edges[k].amount = Dec(1, 0)
          /\ new_edges[k].usd_value = Some(get_eth_usd_price(new_edges[k].timestamp))

\* ------------------------------------------------ trace() runs to its end
\* One call of trace() on chains whose transfers form cycles: A pays B
\* (native) and B pays A (token); C may pay A and D besides.
CycleConfigs ==
    [address : {Seed}, days : {1}, hops : 0..MaxHops, min_usd : {Dec(0, 0)},
     now_ts : {Some(NowTs)}, max_edges_per_address : {0},
     max_total_edges : {0, 1, 3}]

InitFair ==
    /\ cfg \in CycleConfigs
    /\ kwargs = cfg
    /\ \E S \in SUBSET {3, 6} : eth_transfers = Pick(EthPool, {1} \cup S)
    /\ erc20_transfers = Pick(Erc20Pool, {2})
    /\ contract = StaticContracts
    /\ on_progress = "ok"
    /\ pc = "trace"
    /\ Idle
    /\ UnitsIdle
    /\ PricingIdle
    /\ PacingIdle
    /\ LiveIdle

NextFair ==
    \/ TraceStart
    \/ Dequeue
    \/ FetchEth
    \/ FetchErc20
    \/ Pipeline
    \/ AddEdge
    \/ EnqueueNeighbors
    \/ Return

\* the interpreter runs the next statement of trace(), and every call on the
\* static ports returns
FairSpec == InitFair /\ [][NextFair]_vars /\ WF_vars(NextFair)

\* trace() has returned the graph, after the done event, with the loop left
\* by the emptied queue or by the budget break
Returned ==
    /\ pc = "done"
    /\ result = Some(graph)
    /\ events # << >>
    /\ events[Len(events)].event = "done"
    /\ (q = << >> \/ BudgetExhausted(MaxTotal, total_edges_added))

\* C24: on every finite chain and for every hops >= 0, trace() terminates:
\* eventually the queue is empty or the budget break fired, the done event
\* was emitted and the graph returned, also when the transfers form cycles.
C24_TraceTerminates == <>Returned

\* the walk went round a cycle: an address was visited again, one hop deeper
C24_Witness ==
    /\ Returned
    /\ \E j, k \in 1..Len(visits) :
          /\ j < k
          /\ visits[j].address = visits[k].address
          /\ visits[j].depth < visits[k].depth

\* the events between start and done
EventsOfLoop ==
    IF events = << >> THEN << >>
    ELSE SubSeq(events, 2,
                IF events[Len(events)].event = "done" THEN Len(events) - 1
                ELSE Len(events))

\* the k-th event of an address is the k-th of fetch(native),
\* fetch_done(native), fetch(token), fetch_done(token), visit
EventInPlace(ev, k) ==
    CASE k = 0 -> ev.event = "fetch" /\ ev.data.phase = "eth"
      [] k = 1 -> ev.event = "fetch_done" /\ ev.data.phase = "eth"
      [] k = 2 -> ev.event = "fetch" /\ ev.data.phase = "erc20"
      [] k = 3 -> ev.event = "fetch_done" /\ ev.data.phase = "erc20"
      [] OTHER -> ev.event = "visit"

\* the address whose events the g-th group holds: a completed visit, or the
\* address being processed
AddressOfGroup(g) == IF g <= Len(visits) THEN visits[g].address ELSE addr

\* how many events the address being processed has had
EventsOfCurrent ==
    CASE pc = "fetch_erc20" -> 2
      [] pc \in {"pipeline", "add", "break"} -> 4
      [] OTHER -> 0

ETHERSCAN_MAX_RETRIES == 5
ETHERSCAN_PAGE_SIZE == 1000
DEXSCREENER_MAX_RETRIES == 3

\* JSON values of a body: a string or a list
Str(s) == [type |-> "str", text |-> s, rows |-> << >>]
List(rows) == [type |-> "list", text |-> "", rows |-> rows]

\* What one HTTP request brings: http "raises" when session.get,
\* raise_for_status or resp.json() raises; else the decoded JSON, a dict
\* with the keys status, message and result where present, or no dict
Resp(http, isdict, status, message, res) ==
    [http |-> http, isdict |-> isdict, status |-> status,
     message |-> message, result |-> res]

TransportError == Resp("raises", FALSE, None, None, None)
NonDict == Resp("ok", FALSE, None, None, None)
RateLimited ==
    Resp("ok", TRUE, Some("0"), Some("Max rate limit reached"), Some(Str("")))
NotOk ==
    Resp("ok", TRUE, Some("0"), Some("NOTOK"),
         Some(Str("Error! Invalid address format")))
NullResult == Resp("ok", TRUE, Some("1"), Some("OK"), None)
\* a page of rows; the provider reports an empty one as status "0"
PageBody(rows) ==
    IF rows = << >>
    THEN Resp("ok", TRUE, Some("0"), Some("No transactions found"), Some(List(rows)))
    ELSE Resp("ok", TRUE, Some("1"), Some("OK"), Some(List(rows)))
\* the proxy module answers in JSON-RPC: no status, no message
CodeBody(code) == Resp("ok", TRUE, None, None, Some(Str(code)))
CodeError == Resp("ok", TRUE, None, None, None)

\* dict.get(key, default)
DictGet(o, default) == IF IsNone(o) THEN default ELSE Val(o)

\* "rate" in message.lower()
HasRate(message) == message \in { "Max rate limit reached" }

\* the outcome of a _call: how many requests it issued, the attempts after
\* which it slept, and the data it returned or the exception it raised
CallResult(requests, backoffs, data, exc) ==
    [requests |-> requests, backoffs |-> backoffs, data |-> data, raised |-> exc]

\* a variant with a seeded fault: the loop allows one attempt more
MaxRetriesPlusOne == ETHERSCAN_MAX_RETRIES + 1

\* for attempt in range(self._max_retries)
EtherscanRetries == ETHERSCAN_MAX_RETRIES

\* EtherscanChainAdapter._call from its attempt-th pass on; script[k] is
\* what the k-th request brings
RECURSIVE EtherscanLoop(_, _, _, _)
EtherscanLoop(script, attempt, backoffs, last_err) ==
    IF attempt >= EtherscanRetries
    THEN CallResult(attempt, backoffs, None, Exc("DataSourceError", last_err))
    ELSE LET resp == script[attempt + 1]
         IN  IF resp.http = "raises"
             THEN EtherscanLoop(script, attempt + 1,
                                Append(backoffs, attempt), "RequestException")
             ELSE IF ~resp.isdict
             THEN EtherscanLoop(script, attempt + 1,
                                Append(backoffs, attempt), "AttributeError")
             ELSE IF /\ DictGet(resp.status, "1") = "0"
                     /\ HasRate(DictGet(resp.message, "OK"))
             THEN EtherscanLoop(script, attempt + 1,
                                Append(backoffs, attempt), "RateLimitError")
             ELSE CallResult(attempt + 1, backoffs, Some(resp), None)

_call(script) == EtherscanLoop(script, 0, << >>, "None")

\* DexScreenerAdapter._call(path) of an adapter built with max_retries
RECURSIVE DexScreenerLoop(_, _, _, _, _)
DexScreenerLoop(script, max_retries, attempt, backoffs, last_err) ==
    IF attempt >= max_retries
    THEN CallResult(attempt, backoffs, None, Exc("DataSourceError", last_err))
    ELSE LET resp == script[attempt + 1]
         IN  IF resp.http = "raises"
             THEN DexScreenerLoop(script, max_retries, attempt + 1,
                                  Append(backoffs, attempt), "RequestException")
             ELSE IF ~resp.isdict
             THEN DexScreenerLoop(script, max_retries, attempt + 1,
                                  Append(backoffs, attempt), "DataSourceError")
             ELSE CallResult(attempt + 1, backoffs, Some(resp), None)

DexScreener_call(script, max_retries) ==
    DexScreenerLoop(script, max_retries, 0, << >>, "None")

\* what Etherscan can answer to one request of a transfer list, and what
\* DexScreener can answer (it signals throttling by HTTP 429, which
\* raise_for_status raises)
EtherscanAnswers ==
    { TransportError, NonDict, RateLimited, NotOk, PageBody(<< >>) }
DexScreenerAnswers ==
    { TransportError, NonDict, Resp("ok", TRUE, None, None, Some(List(<< >>))) }

\* one _call on each adapter, the provider answering in every possible way,
\* also to a request more than the envelope allows
InitRetry ==
    /\ NoTrace
    /\ UnitsIdle
    /\ PricingIdle
    /\ PacingIdle
    /\ live_pc = "idle"
    /\ op = NoOp
    /\ \/ \E s \in [1..(ETHERSCAN_MAX_RETRIES + 1) -> EtherscanAnswers] :
             last_call = [adapter |-> "etherscan", script |-> s, result |-> None]
       \/ \E s \in [1..(DEXSCREENER_MAX_RETRIES + 1) -> DexScreenerAnswers] :
             last_call = [adapter |-> "dexscreener", script |-> s, result |-> None]
    /\ pages_got = << >>
    /\ ret = NoRet
    /\ _is_contract_cache = << >>
    /\ _token_meta_cache = << >>
    /\ ops_done = 0

EtherscanCall ==
    /\ last_call.adapter = "etherscan"
    /\ IsNone(last_call.result)
    /\ last_call' = [last_call EXCEPT !.result = Some(_call(last_call.script))]
    /\ UNCHANGED << TraceVars, Units, Pricing, Pacing, live_pc, op, pages_got, ret,
                    _is_contract_cache, _token_meta_cache, ops_done >>

DexScreenerCall ==
    /\ last_call.adapter = "dexscreener"
    /\ IsNone(last_call.result)
    /\ last_call' = [last_call EXCEPT !.result =
                        Some(DexScreener_call(last_call.script,
                                              DEXSCREENER_MAX_RETRIES))]
    /\ UNCHANGED << TraceVars, Units, Pricing, Pacing, live_pc, op, pages_got, ret,
                    _is_contract_cache, _token_meta_cache, ops_done >>

NextRetry ==
    \/ EtherscanCall
    \/ DexScreenerCall

RetrySpec == InitRetry /\ [][NextRetry]_vars

\* a transport or decoding failure, or a rate-limit body
FailedAttempt(resp) ==
    \/ resp.http = "raises"
    \/ ~resp.isdict
    \/ /\ resp.status = Some("0")
       /\ ~IsNone(resp.message)
       /\ HasRate(Val(resp.message))

MaxRetriesOf(adapter) ==
    IF adapter = "etherscan" THEN ETHERSCAN_MAX_RETRIES
    ELSE DEXSCREENER_MAX_RETRIES

\* the first attempt that did not fail, or 0
FirstGood(script, n) ==
    IF \A k \in 1..n : FailedAttempt(script[k]) THEN 0
    ELSE CHOOSE k \in 1..n :
            /\ ~FailedAttempt(script[k])
            /\ \A j \in 1..(k - 1) : FailedAttempt(script[j])

MaxPages == 2
MaxRows == 2
MaxFailures == 1
MaxOps == 2

\* rows of the tokentx / txlist result, as the provider's JSON has them; the
\* first is token T without symbol and decimals, the second token T with
\* them, the third another token
RowBare == [hash |-> "0xh1", contractAddress |-> "0xTOKEN",
            tokenSymbol |-> None, tokenDecimal |-> Some("")]
RowMeta == [hash |-> "0xh2", contractAddress |-> TokenT,
            tokenSymbol |-> Some("TKN"), tokenDecimal |-> Some("6")]
RowOther == [hash |-> "0xh3", contractAddress |-> TokenU,
             tokenSymbol |-> Some("UNK"), tokenDecimal |-> Some("18")]
Rows == { RowBare, RowMeta, RowOther }

\* A page is a sequence of runs: n rows alike.  ETHERSCAN_PAGE_SIZE rows
\* are one run of that many rows.
Run(n, row) == [n |-> n, row |-> row]
RECURSIVE PageLen(_)
PageLen(page) ==
    IF page = << >> THEN 0 ELSE Head(page).n + PageLen(Tail(page))

FullPage == << Run(ETHERSCAN_PAGE_SIZE, RowOther) >>
LastPages ==
    { << >>, << Run(ETHERSCAN_PAGE_SIZE - 1, RowOther) >> }
      \cup UNION { { [k \in 1..n |-> Run(1, s[k])] : s \in [1..n -> Rows] } :
                   n \in 1..MaxRows }

\* the page p of the result set that o asks for, as far as o has read it
ProviderPage(o, p) ==
    IF p <= o.full_pages THEN FullPage
    ELSE IF p = o.full_pages + 1 THEN o.last_page
    ELSE << >>

\* what the result set can have at the page o asks for next: one more full
\* page, up to MaxPages of them, or its last page
NextPages(o) ==
    (IF o.page <= MaxPages THEN { FullPage } ELSE { }) \cup LastPages

\* o once the result set is known to have the page pp at o.page
Read(o, pp) ==
    IF pp = FullPage THEN [o EXCEPT !.full_pages = o.page]
    ELSE [o EXCEPT !.last_page = pp]

\* what the provider does with the requests of one _call: up to MaxFailures
\* failed requests and then one of the answers, or nothing but failures
Scripts(answers) ==
    { [k \in 1..(n + 1) |-> IF k <= n THEN TransportError ELSE g] :
        n \in 0..MaxFailures, g \in answers }
      \cup { [k \in 1..ETHERSCAN_MAX_RETRIES |-> f] :
               f \in { TransportError, RateLimited } }

\* res if isinstance(res, list) else []
_list_result(data) ==
    IF ~IsNone(data.result) /\ Val(data.result).type = "list"
    THEN Val(data.result).rows
    ELSE << >>

\* int(dec) if dec and str(dec).isdigit() else None
TokenDecimal(dec) ==
    IF IsNone(dec) THEN None
    ELSE CASE Val(dec) = "6" -> Some(6)
           [] Val(dec) = "18" -> Some(18)
           [] OTHER -> None

TokenMeta(ta, symbol, decimals) ==
    [token_address |-> ta, symbol |-> symbol, decimals |-> decimals,
     name |-> None]

\* lines 160-170: if ta not in self._token_meta_cache
CacheRow(cache, row) ==
    LET ta == Lower(row.contractAddress)
    IN  IF ta \in DOMAIN cache THEN cache
        ELSE (ta :> TokenMeta(ta, row.tokenSymbol, TokenDecimal(row.tokenDecimal)))
                @@ cache

RECURSIVE CacheRows(_, _)
CacheRows(cache, page) ==
    IF page = << >> THEN cache
    ELSE CacheRows(CacheRow(cache, Head(page).row), Tail(page))

\* the RawEthTransfer / RawErc20Transfer yielded for the rows of a page
RawEthTransfers(page) ==
    [k \in 1..Len(page) |-> Run(page[k].n, [tx_hash |-> page[k].row.hash])]
RawErc20Transfers(page) ==
    [k \in 1..Len(page) |->
        Run(page[k].n,
            [tx_hash |-> page[k].row.hash,
             token_address |-> Lower(page[k].row.contractAddress),
             token_symbol |-> page[k].row.tokenSymbol,
             token_decimals |-> TokenDecimal(page[k].row.tokenDecimal)])]

\* variant with a seeded fault: a full page ends the iteration too
PageIsLastInclusive(rows) == PageLen(rows) <= ETHERSCAN_PAGE_SIZE

\* if not rows: break ... if len(rows) < self._page_size: break
PageIsLast(rows) == rows = << >> \/ PageLen(rows) < ETHERSCAN_PAGE_SIZE

\* what the caller holds once the method has started
Started(name, address) ==
    [op |-> name, address |-> address, value |-> Some(<< >>), raised |-> None,
     requests |-> 0]

\* iter_normal_txs(address, ...) up to its first request
IterNormalTxs ==
    /\ live_pc = "idle"
    /\ ops_done < MaxOps
    /\ op' = [name |-> "iter_normal_txs", address |-> A, page |-> 1,
              full_pages |-> 0, last_page |-> << >>]
    /\ live_pc' = "iter"
    /\ pages_got' = << >>
    /\ last_call' = NoCall
    /\ ret' = Started("iter_normal_txs", A)
    /\ UNCHANGED << TraceVars, Units, Pricing, Pacing, _is_contract_cache, _token_meta_cache,
                    ops_done >>

\* iter_erc20_transfers(address, ...) up to its first request
IterErc20Transfers ==
    /\ live_pc = "idle"
    /\ ops_done < MaxOps
    /\ op' = [name |-> "iter_erc20_transfers", address |-> A, page |-> 1,
              full_pages |-> 0, last_page |-> << >>]
    /\ live_pc' = "iter"
    /\ pages_got' = << >>
    /\ last_call' = NoCall
    /\ ret' = Started("iter_erc20_transfers", A)
    /\ UNCHANGED << TraceVars, Units, Pricing, Pacing, _is_contract_cache, _token_meta_cache,
                    ops_done >>

\* one pass of "while True" of an iteration: the request of the page, its
\* rows yielded, and the end of the iteration or the next page
Page(name) ==
    /\ live_pc = "iter"
    /\ op.name = name
    /\ \E pp \in NextPages(op) :
       \E script \in Scripts({ PageBody(pp), NotOk, NullResult }) :
          LET r == _call(script)
              rows == _list_result(Val(r.data))
              yielded == IF name = "iter_erc20_transfers"
                         THEN RawErc20Transfers(rows)
                         ELSE RawEthTransfers(rows)
          IN  /\ last_call' = [adapter |-> "etherscan", script |-> script,
                               result |-> Some(r)]
              /\ IF ~IsNone(r.raised)
                 THEN /\ ret' = [ret EXCEPT !.raised = r.raised,
                                            !.requests = @ + r.requests]
                      /\ live_pc' = "idle"
                      /\ ops_done' = ops_done + 1
                      /\ UNCHANGED << op, pages_got, _token_meta_cache >>
                 ELSE /\ pages_got' = Append(pages_got,
                             [page |-> op.page, rows |-> rows])
                      /\ ret' = [ret EXCEPT !.value = Some(Val(@) \o yielded),
                                            !.requests = @ + r.requests]
                      /\ _token_meta_cache' =
                            IF name = "iter_erc20_transfers"
                            THEN CacheRows(_token_meta_cache, rows)
                            ELSE _token_meta_cache
                      /\ IF PageIsLast(rows)
                         THEN /\ live_pc' = "idle"
                              /\ ops_done' = ops_done + 1
                              /\ op' = Read(op, pp)
                         ELSE /\ op' = [Read(op, pp) EXCEPT !.page = @ + 1]
                              /\ UNCHANGED << live_pc, ops_done >>
    /\ UNCHANGED << TraceVars, Units, Pricing, Pacing, _is_contract_cache >>

\* lines 99-128
NormalPage == Page("iter_normal_txs")
\* lines 139-186
Erc20Page == Page("iter_erc20_transfers")

\* variant with a seeded fault: the cache is keyed by the address as given
CacheKeyAsGiven(address) == address

\* addr = address.lower()
CacheKey(address) == Lower(address)

\* what eth_getCode can answer
CodeAnswers ==
    { CodeBody(""), CodeBody("0x"), CodeBody("0x0"), CodeBody("0x6080"),
      CodeError, NotOk }

\* code = data.get("result") or "0x"
CodeOf(data) ==
    IF IsNone(data.result) \/ Val(data.result).text = "" THEN "0x"
    ELSE Val(data.result).text

\* is_contract(address), lines 188-203
LiveIsContract ==
    /\ live_pc = "idle"
    /\ ops_done < MaxOps
    /\ \E address \in { A, Seed } :
          LET a == CacheKey(address)
          IN  /\ op' = [NoOp EXCEPT !.name = "is_contract", !.address = address]
              /\ IF a \in DOMAIN _is_contract_cache
                 THEN /\ ret' = [op |-> "is_contract", address |-> address,
                                 value |-> Some(_is_contract_cache[a]),
                                 raised |-> None, requests |-> 0]
                      /\ last_call' = NoCall
                      /\ UNCHANGED _is_contract_cache
                 ELSE \E script \in Scripts(CodeAnswers) :
                         LET r == _call(script)
                             is_c == CodeOf(Val(r.data)) \notin { "0x", "0x0" }
                         IN  /\ last_call' = [adapter |-> "etherscan",
                                              script |-> script,
                                              result |-> Some(r)]
                             /\ IF ~IsNone(r.raised)
                                THEN /\ ret' = [op |-> "is_contract",
                                                address |-> address,
                                                value |-> None,
                                                raised |-> r.raised,
                                                requests |-> r.requests]
                                     /\ UNCHANGED _is_contract_cache
                                ELSE /\ _is_contract_cache' =
                                            (a :> is_c) @@ _is_contract_cache
                                     /\ ret' = [op |-> "is_contract",
                                                address |-> address,
                                                value |-> Some(is_c),
                                                raised |-> None,
                                                requests |-> r.requests]
    /\ ops_done' = ops_done + 1
    /\ UNCHANGED << TraceVars, Units, Pricing, Pacing, live_pc, pages_got, _token_meta_cache >>

\* get_token_meta(token_address), lines 205-210
GetTokenMeta ==
    /\ live_pc = "idle"
    /\ ops_done < MaxOps
    /\ \E token_address \in { TokenT, "0xTOKEN", TokenU } :
          LET ta == Lower(token_address)
          IN  /\ op' = [NoOp EXCEPT !.name = "get_token_meta",
                                    !.address = token_address]
              /\ ret' = [op |-> "get_token_meta", address |-> token_address,
                         value |-> Some(IF ta \in DOMAIN _token_meta_cache
                                        THEN _token_meta_cache[ta]
                                        ELSE TokenMeta(ta, None, None)),
                         raised |-> None, requests |-> 0]
    /\ last_call' = NoCall
    /\ ops_done' = ops_done + 1
    /\ UNCHANGED << TraceVars, Units, Pricing, Pacing, live_pc, pages_got, _is_contract_cache,
                    _token_meta_cache >>

InitLive ==
    /\ NoTrace
    /\ UnitsIdle
    /\ PricingIdle
    /\ PacingIdle
    /\ LiveIdle

NextLive ==
    \/ IterNormalTxs
    \/ NormalPage
    \/ IterErc20Transfers
    \/ Erc20Page
    \/ LiveIsContract
    \/ GetTokenMeta

LiveSpec == InitLive /\ [][NextLive]_vars

IterNames == { "iter_normal_txs", "iter_erc20_transfers" }

\* a well-formed body that is no rate-limit signal and whose result is no
\* list of rows (a body with status "0" and a list is the provider's way of
\* saying that no transfer was found)
ProtocolFailure(resp) ==
    /\ resp.http = "ok"
    /\ resp.isdict
    /\ ~FailedAttempt(resp)
    /\ (IsNone(resp.result) \/ Val(resp.result).type # "list")

\* C27: when the provider answers the request of a page of transfers with a
\* protocol failure, the iteration ends with a DataSourceError (after the
\* retries of the envelope) and not as if the page were empty.
C27_ProtocolFailurePropagates ==
    (/\ op.name \in IterNames
     /\ ~IsNone(last_call.result)
     /\ ~IsNone(Val(last_call.result).data)
     /\ ProtocolFailure(Val(Val(last_call.result).data)))
        => (~IsNone(ret.raised) /\ Val(ret.raised).type = "DataSourceError")

\* the rows of a sequence of runs, by hash: what was sent, what was yielded
SentHashes(page) ==
    [k \in 1..Len(page) |-> [n |-> page[k].n, hash |-> page[k].row.hash]]
YieldedHashes(runs) ==
    [k \in 1..Len(runs) |-> [n |-> runs[k].n, hash |-> runs[k].row.tx_hash]]

RECURSIVE SentUpTo(_)
SentUpTo(k) ==
    IF k = 0 THEN << >>
    ELSE SentUpTo(k - 1) \o SentHashes(pages_got[k].rows)

\* the iteration has ended without an exception
IterationOver ==
    /\ live_pc = "idle"
    /\ op.name \in IterNames
    /\ IsNone(ret.raised)

\* every page received is the page the result set has at that place
PagesAreProviders ==
    \A k \in 1..Len(pages_got) : pages_got[k].rows = ProviderPage(op, k)

\* C28: an iteration over transfers requests the pages 1, 2, 3, ... in order
\* with the fixed page size and yields the rows of each page in page order;
\* it ends with the first page that has fewer rows than the page size or none,
\* no page being requested after it; a result set of a whole number of pages
\* costs exactly one more request, for an empty page.
C28_PagesInOrder ==
    op.name \in IterNames =>
        /\ \A k \in 1..Len(pages_got) : pages_got[k].page = k
        /\ \A k \in 1..(Len(pages_got) - 1) :
              PageLen(pages_got[k].rows) = ETHERSCAN_PAGE_SIZE
        /\ live_pc = "iter" =>
              /\ op.page = Len(pages_got) + 1
              /\ \A k \in 1..Len(pages_got) :
                    PageLen(pages_got[k].rows) = ETHERSCAN_PAGE_SIZE
        /\ YieldedHashes(Val(ret.value)) = SentUpTo(Len(pages_got))
        /\ ret.requests >= Len(pages_got)
        /\ IterationOver =>
              /\ pages_got # << >>
              /\ PageLen(pages_got[Len(pages_got)].rows) < ETHERSCAN_PAGE_SIZE
        /\ (IterationOver /\ PagesAreProviders /\ op.last_page = << >>) =>
              /\ Len(pages_got) = op.full_pages + 1
              /\ pages_got[Len(pages_got)].rows = << >>

\* a result set of exactly MaxPages pages, read to its end
C28_Witness ==
    /\ IterationOver
    /\ PagesAreProviders
    /\ op.full_pages = MaxPages
    /\ op.last_page = << >>
    /\ Len(pages_got) = MaxPages + 1
    /\ PageLen(SubSeq(Val(ret.value), 1, MaxPages)) = MaxPages * ETHERSCAN_PAGE_SIZE

\* the rows the iteration received, in order
RECURSIVE RowsUpTo(_)
RowsUpTo(k) ==
    IF k = 0 THEN << >>
    ELSE RowsUpTo(k - 1) \o [j \in 1..Len(pages_got[k].rows) |->
                                pages_got[k].rows[j].row]
RowsGot == RowsUpTo(Len(pages_got))

\* the row carries a symbol or decimals
Carries(row) ==
    ~IsNone(row.tokenSymbol) \/ ~IsNone(TokenDecimal(row.tokenDecimal))

\* C29: after an iteration over token transfers, the token-meta cache holds
\* for each token the symbol and decimals of the first row of that token
\* that carries them, also when an earlier row of the token carried none.
C29_MetaOfFirstCarryingRow ==
    (IterationOver /\ op.name = "iter_erc20_transfers" /\ ops_done = 1) =>
        \A k \in 1..Len(RowsGot) :
            LET row == RowsGot[k]
                ta == Lower(row.contractAddress)
            IN  (/\ Carries(row)
                 /\ \A j \in 1..(k - 1) :
                       Lower(RowsGot[j].contractAddress) = ta
                           => ~Carries(RowsGot[j]))
                    => /\ ta \in DOMAIN _token_meta_cache
                       /\ _token_meta_cache[ta].symbol = row.tokenSymbol
                       /\ _token_meta_cache[ta].decimals
                             = TokenDecimal(row.tokenDecimal)

\* the provider's code result is neither missing, empty, "0x" nor "0x0"
HasCode(resp) ==
    /\ ~IsNone(resp.result)
    /\ Val(resp.result).text \notin { "", "0x", "0x0" }

\* the is_contract call that has just returned
IsContractReturned == ret.op = "is_contract" /\ op.name = "is_contract"

\* C30: is_contract(address) of the live adapter is true exactly when the
\* provider's code result is neither empty, "0x" nor "0x0"; a successful
\* answer is cached under the lowercase address, so that a later call for the
\* address, in any case, returns the cached value without a request; a
\* probe that failed caches nothing.
C30_IsContractCached ==
    /\ [](/\ \A a \in DOMAIN _is_contract_cache : a = Lower(a)
          /\ (IsContractReturned /\ IsNone(ret.raised)) =>
                /\ Lower(ret.address) \in DOMAIN _is_contract_cache
                /\ ret.value = Some(_is_contract_cache[Lower(ret.address)])
          /\ (IsContractReturned /\ IsNone(ret.raised) /\ ret.requests > 0) =>
                ret.value = Some(HasCode(Val(Val(last_call.result).data))))
    /\ [][(ops_done' # ops_done /\ ret'.op = "is_contract") =>
            IF Lower(ret'.address) \in DOMAIN _is_contract_cache
            THEN /\ ret'.requests = 0
                 /\ IsNone(ret'.raised)
                 /\ ret'.value = Some(_is_contract_cache[Lower(ret'.address)])
                 /\ _is_contract_cache' = _is_contract_cache
            ELSE /\ ret'.requests > 0
                 /\ IF IsNone(ret'.raised)
                    THEN DOMAIN _is_contract_cache'
                            = DOMAIN _is_contract_cache \cup { Lower(ret'.address) }
                    ELSE _is_contract_cache' = _is_contract_cache]_vars

\* the second call, with the address in capitals, was answered from the cache
C30_Witness ==
    /\ IsContractReturned
    /\ ops_done = 2
    /\ ret.address = Seed
    /\ ret.requests = 0
    /\ ret.value = Some(TRUE)

\* ----------------------------------------------------------- PriceAdapter
\* the longest list of pairs the market-data source answers with
MaxPairs == 2

Usdc == "0xusdc"

\* DexScreenerAdapter._dec: Decimal(str(val)), None when val is None or no
\* number
_dec(val) ==
    IF IsNone(val) THEN None
    ELSE CASE Val(val) = "1.5" -> Some(Dec(15, -1))
           [] Val(val) = "2" -> Some(Dec(2, 0))
           [] Val(val) = "5" -> Some(Dec(5, 0))
           [] Val(val) = "0" -> Some(Dec(0, 0))
           [] Val(val) = "100" -> Some(Dec(100, 0))
           [] Val(val) = "900" -> Some(Dec(900, 0))
           [] OTHER -> None

\* a pair of the provider's JSON: chainId, priceUsd, liquidity.usd
RawPair(chainId, priceUsd, usd) ==
    [chainId |-> chainId, priceUsd |-> priceUsd, usd |-> usd]

\* two pairs of equal liquidity, a pair without price and a pair of another
\* chain with more liquidity than both, and a pair without liquidity
RawPairs ==
    { RawPair("ethereum", Some("1.5"), Some("100")),
      RawPair("ethereum", Some("2"), Some("100")),
      RawPair("ethereum", None, Some("900")),
      RawPair("bsc", Some("5"), Some("900")),
      RawPair("ethereum", Some("2"), None),
      RawPair("ethereum", Some("1.5"), Some("n/a")) }

PairLists == UNION { [1..n -> RawPairs] : n \in 0..MaxPairs }

\* the body of tokens/{address}: a dict with the list "pairs", or without
PairsBody(pairs) == Resp("ok", TRUE, None, None, Some(List(pairs)))
NoPairsBody == Resp("ok", TRUE, None, None, None)

DexScreenerPair(p) ==
    [chain_id |-> p.chainId, price_usd |-> _dec(p.priceUsd),
     liquidity_usd |-> _dec(p.usd)]

\* settings.DEXSCREENER_CHAIN_ID and chain_id != settings.DEXSCREENER_CHAIN_ID
OtherChain(p) == p.chainId # "ethereum"

\* DexScreenerAdapter.get_pairs past its _call: the pairs of the chain
RECURSIVE PairsOf(_)
PairsOf(rows) ==
    IF rows = << >> THEN << >>
    ELSE IF OtherChain(Head(rows)) THEN PairsOf(Tail(rows))
    ELSE << DexScreenerPair(Head(rows)) >> \o PairsOf(Tail(rows))

\* get_pairs(token_address) when the provider answers its requests with
\* script: the pairs, or the exception of _call
get_pairs(script) ==
    LET r == DexScreener_call(script, DEXSCREENER_MAX_RETRIES)
    IN  [requests |-> r.requests,
         raised |-> r.raised,
         pairs |-> IF ~IsNone(r.raised) THEN None
                   ELSE Some(PairsOf(_list_result(Val(r.data))))]

\* up to MaxFailures failed requests and then a body, or nothing but failures
DexScreenerScripts ==
    { [k \in 1..(n + 1) |-> IF k <= n THEN TransportError ELSE g] :
        n \in 0..MinOf(MaxFailures, DEXSCREENER_MAX_RETRIES - 1),
        g \in { PairsBody(l) : l \in PairLists } \cup { NoPairsBody } }
      \cup { [k \in 1..DEXSCREENER_MAX_RETRIES |-> f] :
               f \in { TransportError, NonDict } }

\* p.liquidity_usd or Decimal("0")
OrZero(d) == IF IsNone(d) \/ Val(d).m = 0 THEN Dec(0, 0) ELSE Val(d)

\* variant with a seeded fault: a pair of equal liquidity does not replace
\* the best one
StrictlyMore(liquidity, best_liquidity) == DecLT(best_liquidity, liquidity)

\* if liquidity >= best_liquidity
AtLeast(liquidity, best_liquidity) == DecGE(liquidity, best_liquidity)

\* lines 36-44: best_price after the loop over the pairs
RECURSIVE BestPrice(_, _, _)
BestPrice(pairs, best_price, best_liquidity) ==
    IF pairs = << >> THEN best_price
    ELSE LET p == Head(pairs)
         IN  IF IsNone(p.price_usd)
             THEN BestPrice(Tail(pairs), best_price, best_liquidity)
             ELSE IF AtLeast(OrZero(p.liquidity_usd), best_liquidity)
             THEN BestPrice(Tail(pairs), p.price_usd, OrZero(p.liquidity_usd))
             ELSE BestPrice(Tail(pairs), best_price, best_liquidity)

\* variant with a seeded fault: the stablecoin set is asked first
FirstMatchStableFirst(a, fixed, stable, cache) ==
    IF a \in stable THEN "stable"
    ELSE IF a \in DOMAIN fixed THEN "fixed"
    ELSE IF a \in DOMAIN cache THEN "cache"
    ELSE "external"

\* lines 22-31: the step that answers for the lowercase address a
FirstMatch(a, fixed, stable, cache) ==
    IF a \in DOMAIN fixed THEN "fixed"
    ELSE IF a \in stable THEN "stable"
    ELSE IF a \in DOMAIN cache THEN "cache"
    ELSE "external"

\* variant with a seeded fault: an unknown price is cached as well
StoreAlways(cache, a, best_price) == (a :> best_price) @@ cache

\* lines 46-47: if best_price is not None: self._price_cache[addr] = ...
Store(cache, a, best_price) ==
    IF IsNone(best_price) THEN cache ELSE (a :> Val(best_price)) @@ cache

\* variant with a seeded fault: the exception of get_pairs is not caught
Uncaught(exc) == exc

\* lines 31-34: except Exception: return None
Caught(exc) == None

\* history: the call before ended with a lookup and without a price
UnknownBefore ==
    /\ price_call.returned
    /\ ~IsNone(price_call.lookup)
    /\ IsNone(price_call.value)

\* the addresses callers ask for, in both spellings
AskedAddresses == { Wbtc, "0x2260FAC5", "0xbb519bda", MixedKey, Usdc }

\* get_token_usd_price(token_address, timestamp) up to its return at lines
\* 23, 26 or 29, or up to the call of get_pairs at line 32
GetTokenUsdPrice ==
    /\ price_pc = "idle"
    /\ \E token_address \in AskedAddresses :
          LET a == Lower(token_address)
              step == FirstMatch(a, FIXED_TOKEN_USD, STABLECOIN_ADDRESSES,
                                 _price_cache)
          IN  /\ price_call' =
                    [token_address |-> token_address,
                     step |-> step,
                     value |-> CASE step = "fixed" -> Some(FIXED_TOKEN_USD[a])
                                 [] step = "stable" -> Some(Dec(1, 0))
                                 [] step = "cache" -> Some(_price_cache[a])
                                 [] OTHER -> None,
                     raised |-> None,
                     returned |-> step # "external",
                     lookup |-> None,
                     cache_before |-> _price_cache,
                     again |-> /\ UnknownBefore
                               /\ a = Lower(price_call.token_address)]
              /\ price_pc' = IF step = "external" THEN "lookup" ELSE "idle"
    /\ UNCHANGED << TraceVars, Units, Live, Pacing, FIXED_TOKEN_USD,
                    STABLECOIN_ADDRESSES, _price_cache >>

\* lines 31-50: get_pairs returns or raises, and the price is chosen
ExternalLookup ==
    /\ price_pc = "lookup"
    /\ \E script \in DexScreenerScripts :
          LET a == Lower(price_call.token_address)
              r == get_pairs(script)
              best_price == IF IsNone(r.pairs) THEN None
                            ELSE BestPrice(Val(r.pairs), None, Dec(-1, 0))
          IN  /\ price_call' = [price_call EXCEPT !.value = best_price,
                                                  !.raised = Caught(r.raised),
                                                  !.returned = TRUE,
                                                  !.lookup = Some(r)]
              /\ _price_cache' = Store(_price_cache, a, best_price)
    /\ price_pc' = "idle"
    /\ UNCHANGED << TraceVars, Units, Live, Pacing, FIXED_TOKEN_USD,
                    STABLECOIN_ADDRESSES >>

\* the settings: the fixed prices have the lowercase key, the key in mixed
\* case, both or none; the stablecoin set may hold a fixed-price address too
InitPrice ==
    /\ NoTrace
    /\ UnitsIdle
    /\ LiveIdle
    /\ \E keys \in SUBSET (DOMAIN SourceFixed) :
          FIXED_TOKEN_USD = [k \in keys |-> SourceFixed[k]]
    /\ STABLECOIN_ADDRESSES \in { SourceStable, SourceStable \cup { Wbtc } }
    /\ _price_cache = << >>
    /\ price_pc = "idle"
    /\ price_call = NoPriceCall
    /\ PacingIdle

NextPrice ==
    \/ GetTokenUsdPrice
    \/ ExternalLookup

PriceSpec == InitPrice /\ [][NextPrice]_vars

\* the lowercase form of the address of the latest call
AskedLower == Lower(price_call.token_address)

C32_FixedPriceAnyCase ==
    price_call.returned =>
        \A k \in DOMAIN FIXED_TOKEN_USD :
            Lower(k) = AskedLower => price_call.value = Some(FIXED_TOKEN_USD[k])

\* the pairs the latest external lookup returned
LookupReturned ==
    /\ price_call.returned
    /\ ~IsNone(price_call.lookup)
    /\ ~IsNone(Val(price_call.lookup).pairs)
PairsReturned == Val(Val(price_call.lookup).pairs)

\* the pair of the highest liquidity, absent liquidity counting as 0, the
\* last one of several
MostLiquid(pairs) ==
    pairs[CHOOSE k \in 1..Len(pairs) :
            /\ \A j \in 1..Len(pairs) :
                  DecLE(OrZero(pairs[j].liquidity_usd), OrZero(pairs[k].liquidity_usd))
            /\ \A j \in (k + 1)..Len(pairs) :
                  DecLT(OrZero(pairs[j].liquidity_usd), OrZero(pairs[k].liquidity_usd))]

HasPrice(p) == ~IsNone(p.price_usd)

\* C33 as stated: on an external lookup, the price returned and cached is
\* the price_usd of the returned pair with the highest liquidity_usd, absent
\* liquidity counted as 0 and ties going to the last such pair in the list.
C33_PriceOfMostLiquidPair ==
    (LookupReturned /\ PairsReturned # << >>) =>
        /\ price_call.value = MostLiquid(PairsReturned).price_usd
        /\ ~IsNone(price_call.value) =>
              /\ AskedLower \in DOMAIN _price_cache
              /\ _price_cache[AskedLower] = Val(price_call.value)

\* C33 amended: on an external lookup, the price returned and cached is the
\* price_usd of the pair with the highest liquidity_usd among the returned
\* pairs that carry a price_usd, absent liquidity counted as 0 and ties
\* going to the last such pair; when no returned pair carries a price the
\* result is unknown and the cache is left as it was.
C33_PriceOfMostLiquidPricedPair ==
    LookupReturned =>
        LET priced == SelectSeq(PairsReturned, HasPrice)
        IN  IF priced = << >>
            THEN /\ IsNone(price_call.value)
                 /\ _price_cache = price_call.cache_before
            ELSE /\ price_call.value = MostLiquid(priced).price_usd
                 /\ _price_cache = (AskedLower :> Val(price_call.value))
                                      @@ price_call.cache_before

\* of two priced pairs of equal liquidity the later one gave the price, which
\* is cached
C33_Witness ==
    /\ LookupReturned
    /\ Len(PairsReturned) = 2
    /\ PairsReturned[1].price_usd = Some(Dec(15, -1))
    /\ PairsReturned[2].price_usd = Some(Dec(2, 0))
    /\ PairsReturned[1].liquidity_usd = PairsReturned[2].liquidity_usd
    /\ price_call.value = Some(Dec(2, 0))
    /\ _price_cache[AskedLower] = Dec(2, 0)

\* the latest call looked the price up and the lookup raised, or returned no
\* pair
LookupFailedOrEmpty ==
    /\ price_call.returned
    /\ ~IsNone(price_call.lookup)
    /\ \/ ~IsNone(Val(price_call.lookup).raised)
       \/ Val(Val(price_call.lookup).pairs) = << >>

\* C34: an external price lookup that fails or returns no pair never raises
\* out of get_token_usd_price: the result is unknown, the price cache is
\* left as it was, and a later call for the same token asks the source
\* again.
C34_UnknownIsNotCached ==
    /\ [](/\ IsNone(price_call.raised)
          /\ LookupFailedOrEmpty =>
                /\ IsNone(price_call.value)
                /\ _price_cache = price_call.cache_before)
    /\ [][(/\ LookupFailedOrEmpty
           /\ price_call'.token_address # ""
           /\ price_call' # price_call
           /\ Lower(price_call'.token_address) = AskedLower)
              => price_pc' = "lookup"]_vars

\* the source had failed or had no pair for the token; asked again for the
\* token spelled otherwise, it was called again and had a price this time
C34_Witness ==
    /\ price_call.again
    /\ price_call.returned
    /\ price_call.token_address = MixedKey
    /\ ~IsNone(price_call.lookup)
    /\ ~IsNone(price_call.value)

\* ------------------------------------------------------ SimpleRateLimiter
\* how many _call the adapter makes, how late a sleep may end, and the time
\* up to which a _call may begin
MaxCalls == 2
MaxLate == 1
MaxClock == 14

\* 1.0 / requests_per_sec in half seconds, for the rates of settings.py
\* (ETHERSCAN_REQUESTS_PER_SEC = 2.0, DEXSCREENER_REQUESTS_PER_SEC = 1.0)
MinInterval(rps) == IF rps = 2 THEN 1 ELSE 2

\* if requests_per_sec <= 0: raise ValueError
Rejected(rps) == rps <= 0

\* SimpleRateLimiter(requests_per_sec)
NewPacer ==
    /\ pacer_pc = "new"
    /\ IF Rejected(requests_per_sec)
       THEN /\ pacer_pc' = "rejected"
            /\ pacing' = [pacing EXCEPT !.raised = Exc("ValueError", "__init__")]
            /\ UNCHANGED << _min_interval, _last_ts >>
       ELSE /\ _min_interval' = MinInterval(requests_per_sec)
            /\ _last_ts' = 0
            /\ pacer_pc' = "idle"
            /\ UNCHANGED pacing
    /\ UNCHANGED << TraceVars, Units, Live, Pricing, requests_per_sec, clock >>

\* time passes between two calls
Tick ==
    /\ pacer_pc = "idle"
    /\ clock < MaxClock
    /\ clock' = clock + 1
    /\ UNCHANGED << TraceVars, Units, Live, Pricing, requests_per_sec,
                    _min_interval, _last_ts, pacer_pc, pacing >>

\* _call(...) of the adapter that owns the pacer, up to its first attempt
StartCall ==
    /\ pacer_pc = "idle"
    /\ pacing.calls < MaxCalls
    /\ clock <= MaxClock
    /\ \E adapter \in { "etherscan", "dexscreener" } :
          pacing' = [pacing EXCEPT !.adapter = adapter, !.attempt = 0,
                                   !.waits = 0, !.requests = 0,
                                   !.raised = None]
    /\ pacer_pc' = "attempt"
    /\ UNCHANGED << TraceVars, Units, Live, Pricing, requests_per_sec, clock,
                    _min_interval, _last_ts >>

\* variant with a seeded fault: wait never sleeps
SleepForNothing(min_interval, elapsed) == 0

\* sleep_for = self._min_interval - elapsed
SleepFor(min_interval, elapsed) == min_interval - elapsed

\* the last two of the times at which wait() returned
LastTwo(returns) ==
    IF Len(returns) <= 2 THEN returns ELSE Tail(returns)

\* self._rl.wait(): time.sleep(sleep_for) ends sleep_for later or later
\* than that, and self._last_ts is the time of the return
wait ==
    /\ pacer_pc = "attempt"
    /\ LET now == clock
           elapsed == now - _last_ts
           sleep_for == SleepFor(_min_interval, elapsed)
       IN  \E late \in 0..MaxLate :
              /\ clock' = IF sleep_for > 0 THEN now + sleep_for + late ELSE now
              /\ _last_ts' = clock'
              /\ pacing' = [pacing EXCEPT
                               !.waits = @ + 1,
                               !.returns = LastTwo(Append(@, clock'))]
    /\ pacer_pc' = "waited"
    /\ UNCHANGED << TraceVars, Units, Live, Pricing, requests_per_sec,
                    _min_interval >>

\* what makes the adapter try again: a transport or decoding failure and,
\* for Etherscan, a rate-limit body
TriesAgain(adapter, resp) ==
    \/ resp.http = "raises"
    \/ ~resp.isdict
    \/ /\ adapter = "etherscan"
       /\ DictGet(resp.status, "1") = "0"
       /\ HasRate(DictGet(resp.message, "OK"))

\* self._session.get(...) and what the adapter makes of the answer
Get ==
    /\ pacer_pc = "waited"
    /\ \E resp \in IF pacing.adapter = "etherscan" THEN EtherscanAnswers
                   ELSE DexScreenerAnswers :
          IF TriesAgain(pacing.adapter, resp)
          THEN /\ pacer_pc' = "backoff"
               /\ pacing' = [pacing EXCEPT !.requests = @ + 1]
          ELSE /\ pacer_pc' = "idle"
               /\ pacing' = [pacing EXCEPT !.requests = @ + 1, !.calls = @ + 1]
    /\ UNCHANGED << TraceVars, Units, Live, Pricing, requests_per_sec, clock,
                    _min_interval, _last_ts >>

\* backoff_sleep(attempt), less than half a second or more, and the next
\* pass of "for attempt in range(self._max_retries)"
Backoff ==
    /\ pacer_pc = "backoff"
    /\ \E slept \in 0..MaxLate : clock' = clock + slept
    /\ IF pacing.attempt + 1 >= MaxRetriesOf(pacing.adapter)
       THEN /\ pacer_pc' = "idle"
            /\ pacing' = [pacing EXCEPT
                             !.attempt = @ + 1, !.calls = @ + 1,
                             !.raised = Exc("DataSourceError", "_call")]
       ELSE /\ pacer_pc' = "attempt"
            /\ pacing' = [pacing EXCEPT !.attempt = @ + 1]
    /\ UNCHANGED << TraceVars, Units, Live, Pricing, requests_per_sec,
                    _min_interval, _last_ts >>

\* an adapter is about to build its pacer, with a rate of settings.py or one
\* that is no rate; time.time() is far from 0
InitPacer ==
    /\ NoTrace
    /\ UnitsIdle
    /\ LiveIdle
    /\ PricingIdle
    /\ requests_per_sec \in { -1, 0, 1, 2 }
    /\ clock = 10
    /\ _min_interval = 0
    /\ _last_ts = 0
    /\ pacer_pc = "new"
    /\ pacing = NoPacing

NextPacer ==
    \/ NewPacer
    \/ Tick
    \/ StartCall
    \/ wait
    \/ Get
    \/ Backoff

PacerSpec == InitPacer /\ [][NextPacer]_vars

\* C35: the pacer rejects requests_per_sec <= 0 at construction; two
\* consecutive returns from wait() on one pacer are at least
\* 1/requests_per_sec apart (times in half seconds); every request of an
\* adapter, each retry included, comes after a wait() of its own.
C35_PacedRequests ==
    /\ pacer_pc # "new" => (pacer_pc = "rejected" <=> requests_per_sec <= 0)
    /\ pacer_pc = "rejected" =>
          /\ pacing.raised = Exc("ValueError", "__init__")
          /\ pacing.waits = 0
    /\ Len(pacing.returns) = 2 =>
          (pacing.returns[2] - pacing.returns[1]) * requests_per_sec >= 2
    /\ pacing.waits = pacing.requests + (IF pacer_pc = "waited" THEN 1 ELSE 0)

\* a retry whose wait slept a full interval of a one-per-second pacer
C35_Witness ==
    /\ requests_per_sec = 1
    /\ pacer_pc = "waited"
    /\ pacing.attempt = 1
    /\ pacing.requests = 1
    /\ pacing.waits = 2
    /\ pacing.returns[2] - pacing.returns[1] = 2

\* the places of port_calls where the transfers of address a were fetched
FetchesOf(a) ==
    { k \in 1..Len(port_calls) :
        /\ port_calls[k].call = "iter_normal_txs"
        /\ port_calls[k].address = a }

\* C36: in one trace with hops >= 0, each (address, depth) pair is processed
\* at most once (one fetch of each kind, one batch); the memo is on the
\* pair, so an address queued at several depths is fetched once at each of
\* them, at most hops + 1 times in all; every queued item has depth <= hops.
C36_PairProcessedOnce ==
    Hops >= 0 =>
        /\ \A j, k \in 1..Len(port_calls) :
              (/\ j < k
               /\ port_calls[j].call = port_calls[k].call
               /\ port_calls[j].address = port_calls[k].address)
                  => port_calls[j].depth # port_calls[k].depth
        /\ \A j, k \in 1..Len(visits) :
              (j < k /\ visits[j].address = visits[k].address)
                  => visits[j].depth # visits[k].depth
        /\ \A k \in 1..Len(port_calls) :
              /\ << port_calls[k].address, port_calls[k].depth >> \in seen_addr_depth
              /\ Cardinality(FetchesOf(port_calls[k].address)) <= Hops + 1
        /\ \A k \in 1..Len(q) : q[k].depth <= Hops

\* the seed was fetched at depth 0 and again at depth 2
C36_Witness ==
    /\ pc = "done"
    /\ Hops = 2
    /\ \E j, k \in FetchesOf(A) :
          /\ port_calls[j].depth = 0
          /\ port_calls[k].depth = 2

\* the slots the two caps leave to a visit that starts with base edges recorded
CapSlots(base, candidates) ==
    LET per == IF PerAddrLimit > 0 THEN MinOf(PerAddrLimit, candidates)
               ELSE candidates
    IN  IF MaxTotal > 0 THEN MinOf(per, MaxTotal - base) ELSE per

\* the keys of the first base edges of the graph
RecordedBefore(base) == { EdgeKey(graph.edges[k]) : k \in 1..base }

\* the candidates of visit v that the graph did not hold when v started
UnrecordedCandidates(v) ==
    { k \in 1..Len(v.deduped) :
        EdgeKey(v.deduped[k]) \notin RecordedBefore(v.base) }

C37_VisitOk(v) ==
    LET Fresh(e) == EdgeKey(e) \notin RecordedBefore(v.base)
    IN  /\ v.batch = SubSeq(SortByUsdDesc(v.deduped), 1,
                            CapSlots(v.base, Len(v.deduped)))
        /\ v.appended = SelectSeq(v.batch, Fresh)

\* C37: the batch of a visit is the ranked candidates cut to the per-address
\* cap and to the remaining total budget, recorded edges included, and only
\* then are the recorded edges dropped: what a visit appends is its capped
\* batch minus the edges the graph already held.
C37_CapsBeforeGlobalDedupe ==
    \A k \in 1..Len(visits) : C37_VisitOk(visits[k])

\* a recorded edge took the only slot of a visit that had fetched an
\* unrecorded candidate, and the trace ended below max_total_edges with that
\* candidate never recorded
C37_Witness ==
    /\ pc = "done"
    /\ MaxTotal > 0
    /\ Len(graph.edges) < MaxTotal
    /\ \E k \in 1..Len(visits) :
          LET v == visits[k]
          IN  /\ Len(v.appended) <
                    MinOf(CapSlots(v.base, Len(v.deduped)),
                          Cardinality(UnrecordedCandidates(v)))
              /\ \E c \in UnrecordedCandidates(v) :
                    EdgeKey(v.deduped[c]) \notin RecordedBefore(Len(graph.edges))

\* the places of events where the sink was given a contract_progress
ProgressEvents ==
    { k \in 1..Len(events) : events[k].event = "contract_progress" }

\* the probes and the nodes of a trace agree: one probe per stored node, none
\* repeated, the checked counter is the number of nodes, and one
\* contract_progress was given to the sink at each 25th check
ProbeAccounting ==
    /\ \A j, k \in 1..Len(probe_calls) :
          j < k => probe_calls[j] # probe_calls[k]
    /\ { probe_calls[k] : k \in 1..Len(probe_calls) } = NodeAddrs(graph)
    /\ contract_stats.checked = Len(graph.nodes)
    /\ contract_stats.errors <= contract_stats.checked
    /\ on_progress # "none" =>
          /\ Cardinality(ProgressEvents) =
                contract_stats.checked \div ContractProgressEvery
          /\ \A k \in ProgressEvents :
                /\ events[k].data.checked > 0
                /\ events[k].data.checked % ContractProgressEvery = 0

\* C38: with contract probing enabled, chain.is_contract is called exactly
\* once for each node inserted and never twice for one address, so at every
\* point of the trace contract_checked is the number of nodes of the graph
\* and contract_errors <= contract_checked, and the sink is given a
\* contract_progress exactly when contract_checked reaches a positive
\* multiple of 25.
C38_OneProbePerNode ==
    (~SkipAsked /\ pc # "trace") => ProbeAccounting

\* the same, for a sink that is absent or does not raise
ProbeAccountingWithQuietSink ==
    on_progress # "raises" => C38_OneProbePerNode

\* a returned trace with probing on whose 25th probe was reported to the sink
QuietSinkReportedProbes ==
    /\ pc = "done"
    /\ ~SkipAsked
    /\ on_progress = "ok"
    /\ contract_stats.checked = ContractProgressEvery
    /\ Cardinality(ProgressEvents) = 1

\* the graph's edges as undirected links, and the nodes within n of them of
\* the seed
GraphNear(S) ==
    S \cup { graph.edges[k].to_address :
               k \in { j \in 1..Len(graph.edges) :
                         graph.edges[j].from_address \in S } }
      \cup { graph.edges[k].from_address :
               k \in { j \in 1..Len(graph.edges) :
                         graph.edges[j].to_address \in S } }

RECURSIVE GraphWithin(_)
GraphWithin(n) ==
    IF n <= 0 THEN {Lower(cfg.address)} ELSE GraphNear(GraphWithin(n - 1))

Fetched == { port_calls[k].address : k \in 1..Len(port_calls) }

\* C39: with a chain port that returns only the transfers incident to the
\* address it is asked about, the graph is connected to the seed: every node
\* is within hops + 1 graph edges of the seed, followed in either direction,
\* every address queued after the seed is already a node, and every edge has
\* an endpoint whose transfers were fetched.
C39_ConnectedToSeed ==
    pc # "trace" =>
        /\ NodeAddrs(graph) \subseteq GraphWithin(Hops + 1)
        /\ \A k \in 1..Len(q) :
              q[k].depth >= 1 => q[k].address \in NodeAddrs(graph)
        /\ \A k \in 1..Len(visits) :
              \A n \in 1..Len(visits[k].enqueued) :
                  visits[k].enqueued[n] \in NodeAddrs(graph)
        /\ \A k \in 1..Len(graph.edges) :
              \/ graph.edges[k].from_address \in Fetched
              \/ graph.edges[k].to_address \in Fetched

\* a returned graph with a node hops + 1 edges from the seed and no nearer,
\* found from an address that had been queued
C39_Witness ==
    /\ pc = "done"
    /\ Hops >= 1
    /\ \E k \in 1..Len(visits) : visits[k].depth = Hops
    /\ NodeAddrs(graph) \ GraphWithin(Hops) # {}

====
